---- MODULE Spec2Model ----
(***************************************************************************)
(* Model of the request interception and span-duration correlation core of *)
(* sdk-logger: the SpanDurationTracker (a span processor that records the  *)
(* duration of every completed span in a module-level Map) and the NestJS  *)
(* LoggingInterceptor (which wraps the handler's stream, defers duration   *)
(* resolution with setTimeout and hands one entry per callback to the      *)
(* Logger).  Source: src/src/adapters/nestjs/span-duration-tracker.ts.     *)
(*                                                                         *)
(* Representation.                                                         *)
(*  - A JS Map is a sequence of [id, dur] records in insertion order.      *)
(*  - A span id is a string; "" is the empty (falsy) string.               *)
(*  - An HrTime is <<seconds, nanos>>; <<>> stands for undefined.          *)
(*  - A millisecond value is kept in fixed point: [whole, frac] stands for *)
(*    whole + frac / 1e6 ms, with 0 <= frac < 1e6.                         *)
(***************************************************************************)
EXTENDS Integers, Sequences, FiniteSets, TLC

VARIABLES
    spanDurations,  \* the module-level Map<string, number>
    nEnds,          \* number of onEnd calls made so far
    onEndRaised,    \* TRUE once an onEnd call has let an exception escape
    lastOnEnd,      \* the kind of span the last onEnd call was given
    now,            \* the last reading of performance.now()
    req,            \* per request: the interceptor's closure and stream state
    timers,         \* pending setTimeout callbacks, in firing order
    emitted,        \* per request: the entries handed to the Logger, in order
    call            \* the last call of a helper function: its argument and result

vars ==
    <<spanDurations, nEnds, onEndRaised, lastOnEnd, now, req, timers, emitted, call>>

(***************************************************************************)
(* Program constants.                                                      *)
(***************************************************************************)
NsPerSec == 1000000000
NsPerMs == 1000000
MaxTableSize == 100
maxBodySize == 1048576
maxHeadersSize == 65536

(***************************************************************************)
(* Bounds of the model.                                                    *)
(***************************************************************************)
RandomScale == 64
NReq == 2        \* concurrently intercepted requests
NSpans == 3      \* spans the tracing subsystem creates for the requests
MaxEnds == 2     \* onEnd calls in one behaviour
MaxValues == 1   \* values a handler's stream emits before it terminates
MaxClock == 1    \* the latest reading of the clock, in milliseconds

(***************************************************************************)
(* Millisecond values in fixed point.                                      *)
(***************************************************************************)
Ms(ns) == [whole |-> ns \div NsPerMs, frac |-> ns % NsPerMs]

MsToNs(d) == d.whole * NsPerMs + d.frac

MsZero == [whole |-> 0, frac |-> 0]

\* a > b on millisecond values
MsGreater(a, b) ==
    \/ a.whole > b.whole
    \/ a.whole = b.whole /\ a.frac > b.frac

(***************************************************************************)
(* JS Map operations on a sequence of [id, dur] in insertion order.        *)
(***************************************************************************)
MapHas(m, k) == \E i \in 1..Len(m) : m[i].id = k

MapIndex(m, k) == CHOOSE i \in 1..Len(m) : m[i].id = k

\* Map.get: <<>> stands for undefined, <<d>> for the number d
MapGet(m, k) == IF MapHas(m, k) THEN <<m[MapIndex(m, k)].dur>> ELSE <<>>

\* Map.set: an existing key keeps its place, a new key goes last
MapSet(m, k, v) ==
    IF MapHas(m, k)
    THEN [m EXCEPT ![MapIndex(m, k)].dur = v]
    ELSE Append(m, [id |-> k, dur |-> v])

\* Map.delete
MapDelete(m, k) == SelectSeq(m, LAMBDA e : e.id # k)

MapKeys(m) == {m[i].id : i \in 1..Len(m)}

\* JS truthiness of a string key
Truthy(k) == k # ""

(***************************************************************************)
(* SpanDurationTracker                                                     *)
(***************************************************************************)
Undefined == <<>>

\* a mutant: the duration rounded down to whole milliseconds
durationMsWhole(start, end) ==
    [whole |-> ((end[1] * NsPerSec + end[2]) - (start[1] * NsPerSec + start[2]))
                   \div NsPerMs,
     frac |-> 0]

\* onEnd, lines 24-27: startNs, endNs, durationNs, durationMs
durationMs(start, end) ==
    LET startNs == start[1] * NsPerSec + start[2]
        endNs == end[1] * NsPerSec + end[2]
        durationNs == endNs - startNs
    IN  Ms(durationNs)

\* onEnd, lines 34-39: drop the first key when more than 100 are held
evictOldest(m) ==
    IF Len(m) > MaxTableSize
    THEN LET firstKey == m[1].id
         IN  IF Truthy(firstKey) THEN MapDelete(m, firstKey) ELSE m
    ELSE m

\* a mutant: the entry is stored before the span is known to be readable, and
\* an exception is let through
onEndUnguarded(m, span) ==
    IF span.startTime # Undefined
    THEN [table |-> evictOldest(MapSet(m, span.spanId,
                       IF span.endTime # Undefined
                       THEN durationMs(span.startTime, span.endTime)
                       ELSE MsZero)),
          raised |-> span.broken]
    ELSE [table |-> m, raised |-> span.broken]

\* onEnd, lines 16-44: the table after the call and whether the call raised.
\* span.broken: span.spanContext() throws, which the try block catches
\* before anything is stored.
onEnd(m, span) ==
    IF span.startTime # Undefined /\ span.endTime # Undefined
    THEN IF span.broken
         THEN [table |-> m, raised |-> FALSE]
         ELSE [table |-> evictOldest(MapSet(m, span.spanId,
                            durationMs(span.startTime, span.endTime))),
               raised |-> FALSE]
    ELSE [table |-> m, raised |-> FALSE]

\* getSpanDuration, lines 59-61
getSpanDuration(spanId) == MapGet(spanDurations, spanId)

\* a mutant: shutdown drops the oldest entry only
shutdownDropsOldest(m) == IF m = <<>> THEN <<>> ELSE Tail(m)

\* shutdown, lines 50-53
shutdown(m) == <<>>

(***************************************************************************)
(* JS values carried by requests, responses and log entries.  A string is  *)
(* kept as a tag and its length in characters, so that serialized sizes    *)
(* are computed and not stored.                                            *)
(***************************************************************************)
JsUndefined == [kind |-> "undefined"]

JsNull == [kind |-> "null"]

Str(t, n) == [kind |-> "string", txt |-> t, len |-> n]

Num(n) == [kind |-> "number", val |-> n]

Obj(f) == [kind |-> "object", fields |-> f]

Bool(b) == [kind |-> "boolean", val |-> b]

Arr(items) == [kind |-> "array", items |-> items]

\* an object with the fields f one of which refers back to the object
Cyclic(f) == [kind |-> "cyclic", fields |-> f]

JsFunction == [kind |-> "function"]

\* no helper function has been called yet
NoCall == [fn |-> "none", arg |-> JsUndefined, result |-> JsUndefined, raised |-> FALSE]

\* !v
Falsy(v) ==
    \/ v.kind \in {"undefined", "null"}
    \/ v.kind = "string" /\ v.len = 0
    \/ v.kind = "number" /\ v.val = 0
    \/ v.kind = "boolean" /\ ~v.val
    \/ v.kind = "nan"

\* characters in a property name
KeyLen(k) ==
    CASE k = "authorization" -> 13
      [] k = "user-agent" -> 10
      [] k = "x-user-id" -> 9
      [] k = "password" -> 8
      [] k = "name" -> 4
      [] k = "data" -> 4
      [] k = "id" -> 2
      [] k = "[TRUNCATED]" -> 11
      [] k = "[ORIGINAL_SIZE]" -> 15
      [] k = "x-auth-token" -> 12
      [] k = "x-api-key" -> 9
      [] k = "message" -> 7
      [] k = "cookie" -> 6
      [] k = "secret" -> 6
      [] k = "nested" -> 6
      [] k = "token" -> 5
      [] k = "self" -> 4
      [] k = "key" -> 3
      [] k = "a" -> 1
      [] k = "b" -> 1
      [] k = "c" -> 1
      [] k = "d" -> 1
      [] k = "durationMs" -> 10
      [] k = "performance" -> 11
      [] k = "statusCode" -> 10
      [] k = "headers" -> 7
      [] k = "method" -> 6
      [] k = "spanId" -> 6
      [] k = "body" -> 4
      [] k = "url" -> 3
      [] k = "timestamp" -> 9
      [] k = "response" -> 8
      [] k = "context" -> 7
      [] k = "request" -> 7
      [] k = "traceId" -> 7
      [] k = "error" -> 5
      [] k = "level" -> 5
      [] k = "date" -> 4

RECURSIVE Digits(_)
Digits(n) == IF n < 10 THEN 1 ELSE 1 + Digits(n \div 10)

RECURSIVE SumOver(_, _)
SumOver(S, f) ==
    IF S = {} THEN 0
    ELSE LET k == CHOOSE x \in S : TRUE
         IN  f[k] + SumOver(S \ {k}, f)

\* String(n).length for an integer
NumLen(n) == IF n < 0 THEN 1 + Digits(0 - n) ELSE Digits(n)

\* JSON.stringify(v).length for a value that is not an object or array
\* (strings hold no character that is escaped)
ScalarJsonLen(v) ==
    CASE v.kind = "string" -> v.len + 2
      [] v.kind = "number" -> NumLen(v.val)
      [] v.kind = "boolean" -> IF v.val THEN 4 ELSE 5
      [] v.kind = "null" -> 4
      [] v.kind = "date" -> IF v.valid THEN 26 ELSE 4

\* JSON.stringify leaves out a property with such a value, and writes null
\* for such an array item
Unserialized(v) == v.kind \in {"undefined", "function"}

RECURSIVE SumSeq(_)
SumSeq(ns) == IF ns = <<>> THEN 0 ELSE Head(ns) + SumSeq(Tail(ns))

\* JSON.stringify(v).length for a value that can be serialized
RECURSIVE JsonLen(_)
JsonLen(v) ==
    IF v.kind = "object"
    THEN LET ks == {k \in DOMAIN v.fields : ~Unserialized(v.fields[k])}
             member == [k \in ks |-> KeyLen(k) + 3 + JsonLen(v.fields[k])]
         IN  2 + SumOver(ks, member)
               + (IF ks = {} THEN 0 ELSE Cardinality(ks) - 1)
    ELSE IF v.kind = "array"
    THEN 2 + SumSeq([i \in 1..Len(v.items) |->
                        IF Unserialized(v.items[i]) THEN 4 ELSE JsonLen(v.items[i])])
           + (IF v.items = <<>> THEN 0 ELSE Len(v.items) - 1)
    ELSE ScalarJsonLen(v)

\* JSON.stringify(v) throws for a cyclic object and returns undefined, not a
\* string, for a function or undefined
StringifyThrows(v) == v.kind = "cyclic"

StringifyUndefined(v) == v.kind \in {"function", "undefined"}

\* safeCalculateSize of the earlier revision of the interceptor
\* (unnamed/part_007, lines 245-259)
safeCalculateSize(data) ==
    IF data.kind \in {"null", "undefined"} THEN 0
    ELSE IF data.kind = "string" THEN data.len
    ELSE IF data.kind = "number" THEN NumLen(data.val)
    ELSE IF data.kind = "boolean" THEN (IF data.val THEN 4 ELSE 5)
    ELSE IF StringifyThrows(data) THEN 0
    ELSE IF StringifyUndefined(data) THEN 0
    ELSE JsonLen(data)

\* calculateDataSize, lines 410-432: the JSON length; if serializing throws
\* (also by reading .length of undefined), the catch block estimates
calculateDataSize(data) ==
    IF Falsy(data) THEN 0
    ELSE IF StringifyThrows(data) THEN Cardinality(DOMAIN data.fields) * 100
    ELSE IF StringifyUndefined(data) THEN 0
    ELSE JsonLen(data)

\* calculateResponseSize, lines 434-442
calculateResponseSize(data) ==
    IF Falsy(data) THEN 0
    ELSE IF StringifyThrows(data) \/ StringifyUndefined(data) THEN 0
    ELSE JsonLen(data)

Redacted == Str("[REDACTED]", 10)

\* the spread copy with each listed field that is truthy replaced
redact(v, names) ==
    Obj([k \in DOMAIN v.fields |->
            IF k \in names /\ ~Falsy(v.fields[k]) THEN Redacted ELSE v.fields[k]])

\* a mutant: the body is redacted whatever its size
sanitizeBodyUntruncated(body) ==
    IF Falsy(body) THEN JsNull
    ELSE IF body.kind = "object"
         THEN redact(body, {"password", "token", "secret", "key"})
         ELSE body

\* sanitizeBody, lines 360-383
sanitizeBody(body) ==
    IF Falsy(body) THEN JsNull
    ELSE LET bodySize == calculateDataSize(body)
         IN  IF bodySize > maxBodySize
             THEN Obj([k \in {"[TRUNCATED]", "[ORIGINAL_SIZE]"} |->
                        IF k = "[TRUNCATED]"
                        THEN Str("Body muito grande (" \o ToString(bodySize)
                                   \o " bytes). Tamanho maximo: "
                                   \o ToString(maxBodySize) \o " bytes",
                                 50 + Digits(bodySize) + Digits(maxBodySize))
                        ELSE Num(bodySize)])
             ELSE redact(body, {"password", "token", "secret", "key"})

\* sanitizeHeaders, lines 385-408
sanitizeHeaders(headers) ==
    IF Falsy(headers) THEN Obj(<<>>)
    ELSE LET headersSize == calculateDataSize(headers)
         IN  IF headersSize > maxHeadersSize
             THEN Obj([k \in {"[TRUNCATED]", "[ORIGINAL_SIZE]"} |->
                        IF k = "[TRUNCATED]"
                        THEN Str("Headers muito grandes (" \o ToString(headersSize)
                                   \o " bytes). Tamanho maximo: "
                                   \o ToString(maxHeadersSize) \o " bytes",
                                 54 + Digits(headersSize) + Digits(maxHeadersSize))
                        ELSE Num(headersSize)])
             ELSE redact(headers, {"authorization", "cookie", "x-api-key", "x-auth-token"})

TruncatedTooLarge == Str("[TRUNCATED - TOO LARGE]", 23)

(***************************************************************************)
(* The environment: requests, spans, handler streams.                      *)
(***************************************************************************)
Reqs == 1..NReq

\* readings of performance.now(), in whole milliseconds
Clock == 0..MaxClock

SpanName(i) == "s" \o ToString(i)

Spans == {SpanName(i) : i \in 1..NSpans}

\* the spans the tracing subsystem creates on behalf of request r; only
\* these are ever active in r's asynchronous context
SpansOf(r) == {SpanName(i) : i \in {j \in 1..NSpans : ((j - 1) % NReq) + 1 = r}}

NoSpan == "-"

\* the trace a span belongs to: the spans of a request share one trace
TraceIdOf(span) == "t" \o ToString(CHOOSE r \in Reqs : span \in SpansOf(r))

\* Math.random(), line 342: the n-th value of random stream seed, as the
\* numerator of a fraction of RandomScale
Random(seed, n) == (seed * 29 + n * (4 * seed + 7)) % RandomScale

\* the random streams a call of intercept may see
Seeds == {1, 2}

\* line 339
HexChars ==
    <<"0", "1", "2", "3", "4", "5", "6", "7",
      "8", "9", "a", "b", "c", "d", "e", "f">>

\* a mutant: the alphabet in capitals
hexCharsUpper(length, seed, used) ==
    [i \in 1..length |->
        <<"0", "1", "2", "3", "4", "5", "6", "7",
          "8", "9", "A", "B", "C", "D", "E", "F">>[
            (Random(seed, used + i) * 16) \div RandomScale + 1]]

\* lines 340-343: the characters generateHexId(length) appends, after
\* `used` values of the stream have been consumed
hexChars(length, seed, used) ==
    [i \in 1..length |->
        HexChars[(Random(seed, used + i) * Len(HexChars)) \div RandomScale + 1]]

\* result += ..., lines 340-344
RECURSIVE Concat(_)
Concat(cs) == IF cs = <<>> THEN "" ELSE Head(cs) \o Concat(Tail(cs))

\* generateHexId(length), lines 338-345
generateHexId(length, seed, used) == Concat(hexChars(length, seed, used))

\* the lengths asked for at lines 168-169 and 172-173
TraceIdLength == 32
SpanIdLength == 16

HSmall ==
    Obj([k \in {"authorization", "user-agent"} |->
            IF k = "authorization" THEN Str("Basic c2VjcmV0", 14) ELSE Str("curl", 4)])

HBig == Obj([k \in {"user-agent"} |-> Str("AAAA...", 65536)])

BSmall ==
    Obj([k \in {"name", "password"} |->
            IF k = "name" THEN Str("ann", 3) ELSE Str("hunter2", 7)])

BBig == Obj([k \in {"data"} |-> Str("BBBB...", 1048576)])

\* what context.switchToHttp().getRequest() yields: an object with headers
\* and body, or something that is not an object
Request(h, b) == [kind |-> "object", headers |-> h, body |-> b]

NotAnObject == [kind |-> "string", txt |-> "req", len |-> 3]

RequestValues ==
    {Request(HSmall, BSmall), Request(HSmall, BBig), Request(HBig, BSmall),
     Request(JsUndefined, BSmall), Request(JsUndefined, BBig),
     JsUndefined, NotAnObject}

\* the arguments of a call of intercept: a context that is absent or has no
\* switchToHttp yields no request
InterceptInputs ==
    {[ctx |-> "ok", request |-> q] : q \in RequestValues}
    \cup {[ctx |-> c, request |-> JsUndefined] : c \in {"absent", "noSwitchToHttp"}}

\* the execution context handed to intercept
ContextKinds == {"ok", "absent", "noSwitchToHttp"}

\* where an internal exception is injected into intercept
InterceptFaults == {"none", "context", "extract", "trace", "logger"}

\* where an internal exception is injected into the deferred callback
CallbackFaults == {"none", "span", "logger"}

RespData == Obj([k \in {"id"} |-> Str("42", 2)])

Errors == {"HttpException"}

NextEvent(v) == [type |-> "next", data |-> v, error |-> "-"]

CompleteEvent == [type |-> "complete", data |-> JsUndefined, error |-> "-"]

ErrorEvent(e) == [type |-> "error", data |-> JsUndefined, error |-> e]

Terminated(events) ==
    Len(events) > 0 /\ events[Len(events)].type \in {"complete", "error"}

CountType(events, t) == Len(SelectSeq(events, LAMBDA ev : ev.type = t))

\* a request before intercept is called for it.
\*   ctx, request : the arguments intercept was called with
\*   path         : the branch intercept took
\*   thrown       : intercept itself raised to its caller
\*   failure      : the step whose exception intercept's outer catch caught
\*   spanId, startTime : the closure's correlation id and start instant
\*   handleCalls  : calls of next.handle()
\*   reads        : duration resolutions run for the request (each reads the
\*                  span-duration table)
\*   produced     : the events of the handler's stream so far
\*   delivered    : the events the stream returned by intercept has passed on
IdleReq ==
    [ctx |-> "-", request |-> JsUndefined, path |-> "idle", thrown |-> FALSE,
     failure |-> "none", traceId |-> "", spanId |-> "", startTime |-> 0, handleCalls |-> 0, reads |-> 0,
     produced |-> <<>>, delivered |-> <<>>]

(***************************************************************************)
(* LoggingInterceptor                                                      *)
(***************************************************************************)
\* an entry handed to the Logger.  src and of record which step of the
\* duration resolution gave durationMs and the span it was read from.
Entry(level, d, src, of, body, headers, respBody, error, traceId, spanId) ==
    [level |-> level, durationMs |-> d, src |-> src, of |-> of,
     body |-> body, headers |-> headers, respBody |-> respBody,
     error |-> error, traceId |-> traceId, spanId |-> spanId]

\* lines 205-210: the scan for the largest duration above 0, starting at
\* entry i with the best found so far
RECURSIVE scanMax(_, _, _)
scanMax(m, i, best) ==
    IF i > Len(m) THEN best
    ELSE IF Truthy(m[i].id) /\ MsGreater(m[i].dur, best.dur)
         THEN scanMax(m, i + 1, [dur |-> m[i].dur, of |-> m[i].id])
         ELSE scanMax(m, i + 1, best)

\* a mutant: the lookup by the captured span id is left out
resolveDurationNoCaptured(m, active, spanFail, spanId, startTime, endTime) ==
    LET a == IF ~spanFail /\ active # NoSpan THEN MapGet(m, active) ELSE <<>>
        c == scanMax(m, 1, [dur |-> MsZero, of |-> NoSpan])
    IN  IF a # <<>> THEN [ms |-> a[1], src |-> "active", of |-> active]
        ELSE IF MsGreater(c.dur, MsZero) THEN [ms |-> c.dur, src |-> "max", of |-> c.of]
        ELSE [ms |-> Ms((endTime - startTime) * NsPerMs), src |-> "wall", of |-> NoSpan]

\* lines 184-220 and 257-293: the duration of a completion entry.
\*   active   : the span getActiveSpan() returns in the callback, or NoSpan
\*   spanFail : the lookup of the active span throws
resolveDuration(m, active, spanFail, spanId, startTime, endTime) ==
    LET a == IF ~spanFail /\ active # NoSpan THEN MapGet(m, active) ELSE <<>>
        b == IF a = <<>> /\ Truthy(spanId) THEN MapGet(m, spanId) ELSE <<>>
        c == scanMax(m, 1, [dur |-> MsZero, of |-> NoSpan])
    IN  IF a # <<>> THEN [ms |-> a[1], src |-> "active", of |-> active]
        ELSE IF b # <<>> THEN [ms |-> b[1], src |-> "captured", of |-> spanId]
        ELSE IF MsGreater(c.dur, MsZero) THEN [ms |-> c.dur, src |-> "max", of |-> c.of]
        ELSE [ms |-> Ms((endTime - startTime) * NsPerMs), src |-> "wall", of |-> NoSpan]

\* a mutant: the error is replaced by one of the interceptor's own
catchErrorWraps(e) == ErrorEvent("LoggingError")

\* line 325: what catchError hands on after scheduling the log
catchErrorResult(e) == ErrorEvent(e)

\* line 180: tap passes the value on
tapResult(v) == NextEvent(v)

\* the outcome of the synchronous part of intercept
Outcome(path, failure, traceId, spanId, startTime, entries) ==
    [path |-> path, thrown |-> FALSE, failure |-> failure,
     traceId |-> traceId, spanId |-> spanId,
     startTime |-> startTime, handleCalls |-> 1, entries |-> entries]

\* lines 100, 108: the handler's stream is returned as it is
Bypass(path) == Outcome(path, "none", "", "", 0, <<>>)

\* a mutant: the recovery from an exception does not call the handler
caughtSkipsHandler(step) ==
    [Outcome("caught", step, "", "", 0, <<>>) EXCEPT !.handleCalls = 0]

\* lines 328-331: an exception of the given step is caught and the handler's
\* stream is returned as it is
Caught(step) == Outcome("caught", step, "", "", 0, <<>>)

\* extractUserId, lines 347-358, throws when request.headers is not there
extractUserIdThrows(request) == request.headers.kind = "undefined"

\* lines 130-144: the entry for a request with oversized data
warnEntry(body, headers, bodySize, headersSize) ==
    Entry("warn", MsZero, "none", NoSpan,
          IF bodySize > maxBodySize THEN TruncatedTooLarge ELSE body,
          IF headersSize > maxHeadersSize THEN TruncatedTooLarge ELSE headers,
          JsUndefined, "-", "", "")

\* a mutant: an exception inside intercept reaches the caller
interceptRethrows(r, ctx, request, fault, active, seed, startTime) ==
    IF ctx = "ok" /\ fault \in {"context", "extract"}
    THEN [path |-> "caught", thrown |-> TRUE, failure |-> fault,
          traceId |-> "", spanId |-> "",
          startTime |-> 0, handleCalls |-> 0, entries |-> <<>>]
    ELSE IF ctx = "ok" /\ request.kind = "object"
         THEN IF extractUserIdThrows(request) THEN Caught("userId")
              ELSE Outcome("instrumented", "none",
                           generateHexId(TraceIdLength, seed, 0),
                           generateHexId(SpanIdLength, seed, TraceIdLength),
                           startTime, <<>>)
         ELSE Bypass("invalidContext")

\* a mutant: the invalid context is reported through the Logger
interceptLogsInvalid(r, ctx, request, fault, active, seed, startTime) ==
    IF ctx = "ok" /\ request.kind = "object" /\ ~extractUserIdThrows(request)
    THEN Outcome("instrumented", "none",
                           generateHexId(TraceIdLength, seed, 0),
                           generateHexId(SpanIdLength, seed, TraceIdLength),
                           startTime, <<>>)
    ELSE Outcome("invalidContext", "none", "", "", 0,
                 <<warnEntry(JsUndefined, JsUndefined, 0, 0)>>)

\* intercept, lines 92-179 and 328-331: the synchronous part.
\*   active : the span getActiveSpan() returns at entry, or NoSpan
\*   fault  : the step at which an internal exception is injected
\*   seed   : the random stream generateHexId draws from
intercept(r, ctx, request, fault, active, seed, startTime) ==
    IF ctx \in {"absent", "noSwitchToHttp"} THEN Bypass("invalidContext")
    ELSE IF fault = "context" THEN Caught("context")
    ELSE IF request.kind # "object" THEN Bypass("notObject")
    ELSE IF fault = "extract" THEN Caught("extract")
    ELSE LET headers == request.headers
             body == request.body
             bodySize == calculateDataSize(body)
             headersSize == calculateDataSize(headers)
         IN  IF bodySize > maxBodySize \/ headersSize > maxHeadersSize
             THEN IF extractUserIdThrows(request) THEN Caught("userId")
                  ELSE IF fault = "logger" THEN Caught("logger")
                  ELSE Outcome("oversize", "none", "", "", 0,
                               <<warnEntry(body, headers, bodySize, headersSize)>>)
             ELSE IF extractUserIdThrows(request) THEN Caught("userId")
             ELSE IF fault = "trace" \/ active = NoSpan
                  THEN Outcome("instrumented", "none",
                               generateHexId(TraceIdLength, seed, 0),
                               generateHexId(SpanIdLength, seed, TraceIdLength),
                               startTime, <<>>)
                  ELSE Outcome("instrumented", "none",
                               TraceIdOf(active), active, startTime, <<>>)

\* lines 222-247 and 295-319: the entry the deferred callback hands to the
\* Logger for timer t of a request with closure c
completionEntry(c, t, res) ==
    IF t.kind = "next"
    THEN Entry("info", res.ms, res.src, res.of,
               sanitizeBody(c.request.body), sanitizeHeaders(c.request.headers),
               sanitizeBody(t.data), "-", c.traceId, c.spanId)
    ELSE Entry("error", res.ms, res.src, res.of,
               sanitizeBody(c.request.body), sanitizeHeaders(c.request.headers),
               JsUndefined, t.error, c.traceId, c.spanId)

\* lines 182-251 and 255-323: the entries a deferred callback emits
callback(c, t, m, active, fault, endTime) ==
    IF fault = "logger" THEN <<>>
    ELSE <<completionEntry(c, t,
              resolveDuration(m, active, fault = "span", c.spanId, c.startTime, endTime))>>

\* a pending setTimeout callback of request r.  tracked is what the table
\* held for the request's captured span id when the callback was scheduled.
Timer(r, kind, data, error, tracked) ==
    [r |-> r, kind |-> kind, data |-> data, error |-> error, tracked |-> tracked]

\* a mutant: a lookup takes the oldest entry out of the table
lookupsConsume(m) == IF m = <<>> THEN <<>> ELSE Tail(m)

\* lines 59-61, 187-214 and 260-287: the table after the callback's reads;
\* Map.get and the iteration over Map.entries() change nothing
afterLookups(m) == m

\* a mutant: the callback is not put off to a later turn
runInline(pending, t) == pending

\* lines 182 and 255: setTimeout(callback) with no delay puts the callback
\* behind the pending ones, to run in a later turn of the event loop
setTimeout(pending, t) == Append(pending, t)

(***************************************************************************)
(* Actions                                                                 *)
(***************************************************************************)
Init ==
    /\ spanDurations = <<>>
    /\ nEnds = 0
    /\ onEndRaised = FALSE
    /\ lastOnEnd = "none"
    /\ now = 0
    /\ req = [r \in Reqs |-> IdleReq]
    /\ timers = <<>>
    /\ emitted = [r \in Reqs |-> <<>>]
    /\ call = NoCall

\* the framework calls intercept(context, next) for request r; clock is what
\* performance.now() returns if the call reads it (line 177)
Intercept(r, ctx, request, fault, active, seed, clock) ==
    /\ req[r].path = "idle"
    /\ clock >= now
    /\ LET out == intercept(r, ctx, request, fault, active, seed, clock)
       IN  /\ req' = [req EXCEPT ![r] =
                        [@ EXCEPT !.ctx = ctx, !.request = request,
                                  !.path = out.path, !.thrown = out.thrown,
                                  !.failure = out.failure,
                                  !.traceId = out.traceId,
                                  !.spanId = out.spanId,
                                  !.startTime = out.startTime,
                                  !.handleCalls = @ + out.handleCalls]]
           /\ emitted' = [emitted EXCEPT ![r] = @ \o out.entries]
           /\ now' = IF out.path = "instrumented" THEN clock ELSE now
    /\ UNCHANGED <<call, spanDurations, nEnds, onEndRaised, lastOnEnd, timers>>

Open(r) ==
    /\ req[r].path # "idle"
    /\ ~req[r].thrown
    /\ ~Terminated(req[r].produced)

\* the handler's stream emits a value
HandlerNext(r, v) ==
    /\ Open(r)
    /\ CountType(req[r].produced, "next") < MaxValues
    /\ req' = [req EXCEPT ![r].produced = Append(@, NextEvent(v)),
                          ![r].delivered = Append(@,
                              IF req[r].path = "instrumented"
                              THEN tapResult(v) ELSE NextEvent(v))]
    /\ timers' = IF req[r].path = "instrumented"
                 THEN setTimeout(timers, Timer(r, "next", v, "-",
                                              MapGet(spanDurations, req[r].spanId)))
                 ELSE timers
    /\ UNCHANGED <<call, spanDurations, nEnds, onEndRaised, lastOnEnd, now, emitted>>

\* the handler's stream completes
HandlerComplete(r) ==
    /\ Open(r)
    /\ req' = [req EXCEPT ![r].produced = Append(@, CompleteEvent),
                          ![r].delivered = Append(@, CompleteEvent)]
    /\ UNCHANGED <<call, spanDurations, nEnds, onEndRaised, lastOnEnd, now, timers, emitted>>

\* the handler's stream fails with error e
HandlerError(r, e) ==
    /\ Open(r)
    /\ req' = [req EXCEPT ![r].produced = Append(@, ErrorEvent(e)),
                          ![r].delivered = Append(@,
                              IF req[r].path = "instrumented"
                              THEN catchErrorResult(e) ELSE ErrorEvent(e))]
    /\ timers' = IF req[r].path = "instrumented"
                 THEN setTimeout(timers, Timer(r, "error", JsUndefined, e,
                                              MapGet(spanDurations, req[r].spanId)))
                 ELSE timers
    /\ UNCHANGED <<call, spanDurations, nEnds, onEndRaised, lastOnEnd, now, emitted>>

\* the oldest pending setTimeout callback runs; clock is what
\* performance.now() returns if the callback reads it (lines 218, 291)
FireTimer(active, fault, clock) ==
    /\ timers # <<>>
    /\ clock >= now
    /\ LET t == Head(timers)
           out == callback(req[t.r], t, spanDurations, active, fault, clock)
       IN  /\ active \in SpansOf(t.r) \cup {NoSpan}
           /\ emitted' = [emitted EXCEPT ![t.r] = @ \o out]
           /\ req' = [req EXCEPT ![t.r].reads = @ + 1]
           /\ now' = IF out # <<>> /\ out[1].src = "wall" THEN clock ELSE now
    /\ timers' = Tail(timers)
    /\ spanDurations' = afterLookups(spanDurations)
    /\ UNCHANGED <<call, nEnds, onEndRaised, lastOnEnd>>

\* what a span object lets onEnd read
SpanKind(span) ==
    IF span.startTime = Undefined \/ span.endTime = Undefined THEN "untimed"
    ELSE IF span.broken THEN "unreadable"
    ELSE "timed"

\* the tracing subsystem ends a span and calls onEnd(span)
OnEnd(span) ==
    /\ nEnds < MaxEnds
    /\ LET out == onEnd(spanDurations, span)
       IN  /\ spanDurations' = out.table
           /\ onEndRaised' = (onEndRaised \/ out.raised)
    /\ nEnds' = nEnds + 1
    /\ lastOnEnd' = SpanKind(span)
    /\ UNCHANGED <<call, now, req, timers, emitted>>

\* the tracing subsystem shuts the processor down
Shutdown ==
    /\ spanDurations' = shutdown(spanDurations)
    /\ UNCHANGED <<call, nEnds, onEndRaised, lastOnEnd, now, req, timers, emitted>>

SpanObject(id, start, end, broken) ==
    [spanId |-> id, startTime |-> start, endTime |-> end, broken |-> broken]

\* the spans that end while requests are served: span i lasts i/2 ms
RequestSpans ==
    {SpanObject(SpanName(i), <<0, 0>>, <<0, 500000 * i>>, FALSE) : i \in 1..NSpans}

(***************************************************************************)
(* Spec: one request, with every shape of context and request and every    *)
(* injected internal failure, while spans end and time passes.  Time is    *)
(* counted from the call of intercept.                                     *)
(***************************************************************************)
Next ==
    \/ \E in \in InterceptInputs, fault \in InterceptFaults,
          active \in SpansOf(1) \cup {NoSpan}, seed \in Seeds :
            Intercept(1, in.ctx, in.request, fault, active, seed, now)
    \/ HandlerNext(1, RespData)
    \/ HandlerComplete(1)
    \/ \E e \in Errors : HandlerError(1, e)
    \/ \E active \in Spans \cup {NoSpan}, fault \in CallbackFaults,
          clock \in Clock :
            FireTimer(active, fault, clock)
    \/ \E span \in RequestSpans : OnEnd(span)
    \/ Shutdown

Spec == Init /\ [][Next]_vars

(***************************************************************************)
(* SpecTracker: the span processor alone, started from tables the program  *)
(* reaches by ending spans one after the other: the empty table, and       *)
(* tables one short of the cap and at the cap, whose oldest key is either  *)
(* an ordinary span id or the empty string.                                *)
(***************************************************************************)
FillId(i) == "f" \o ToString(i)

\* the table after spans f1 .. fn ended, span fi having lasted i/4 ms
Fill(n) == [i \in 1..n |-> [id |-> FillId(i), dur |-> Ms(250000 * i)]]

\* the same with a span whose id is the empty string ended first
FillAfterEmptyId(n) ==
    [i \in 1..n |->
        IF i = 1 THEN [id |-> "", dur |-> Ms(250000)]
        ELSE [id |-> FillId(i), dur |-> Ms(250000 * i)]]

TrackerTables ==
    {<<>>, Fill(MaxTableSize - 1), Fill(MaxTableSize),
     FillAfterEmptyId(MaxTableSize)}

TrackerIds == {"", FillId(1), FillId(2), "n1", "n2"}

\* the spans handed to onEnd: new ids, ids already held (the oldest and
\* another one) and the empty id; with both times (the end before, at or
\* after the start), without one of them or both, or unreadable
TrackerSpans ==
    {SpanObject(id, start, end, FALSE) :
        id \in TrackerIds, start \in {<<0, 0>>, <<1, 250000>>},
        end \in {<<0, 750000>>, <<1, 250000>>}}
    \cup {SpanObject(id, Undefined, end, FALSE) :
            id \in TrackerIds, end \in {Undefined, <<0, 750000>>}}
    \cup {SpanObject(id, <<0, 0>>, Undefined, FALSE) : id \in TrackerIds}
    \cup {SpanObject(id, <<0, 0>>, <<0, 750000>>, TRUE) : id \in TrackerIds}

InitTracker ==
    /\ spanDurations \in TrackerTables
    /\ nEnds = 0
    /\ onEndRaised = FALSE
    /\ lastOnEnd = "none"
    /\ now = 0
    /\ req = [r \in Reqs |-> IdleReq]
    /\ timers = <<>>
    /\ emitted = [r \in Reqs |-> <<>>]
    /\ call = NoCall

NextTracker ==
    \/ \E span \in TrackerSpans : OnEnd(span)
    \/ Shutdown

SpecTracker == InitTracker /\ [][NextTracker]_vars

(***************************************************************************)
(* Properties of the span processor (checked under SpecTracker).           *)
(***************************************************************************)
\* the nanoseconds between the start and the end of a timed span
ExactNs(span) ==
    (span.endTime[1] * NsPerSec + span.endTime[2])
        - (span.startTime[1] * NsPerSec + span.startTime[2])

\* C8: the table never holds more than 100 entries, and an onEnd that
\* records a new span id while 100 entries are held removes exactly the
\* oldest-inserted entry and appends the new one.
C8_TableBounded ==
    [][/\ Len(spanDurations') <= MaxTableSize
       /\ \A span \in TrackerSpans :
            (/\ lastOnEnd' = SpanKind(span)
             /\ SpanKind(span) = "timed"
             /\ Len(spanDurations) = MaxTableSize
             /\ ~MapHas(spanDurations, span.spanId)
             /\ OnEnd(span))
            => spanDurations' =
                   Append(Tail(spanDurations),
                          [id |-> span.spanId, dur |-> Ms(ExactNs(span))])]_vars

\* C9: right after onEnd of a span with start and end times,
\* getSpanDuration of its id is (endNs - startNs) / 1e6 with the
\* sub-millisecond part kept, whatever the table held for that id before.
C9_DurationRecorded ==
    [][\A span \in TrackerSpans :
        (lastOnEnd' = SpanKind(span) /\ SpanKind(span) = "timed" /\ OnEnd(span))
        => LET got == MapGet(spanDurations', span.spanId)
           IN  /\ got # <<>>
               /\ MsToNs(got[1]) = ExactNs(span)]_vars

\* C9 witness: the oldest span of a full table has ended again and its
\* entry now holds a fractional duration different from the first one.
C9_Witness ==
    /\ lastOnEnd = "timed"
    /\ Len(spanDurations) = MaxTableSize
    /\ spanDurations[1].id = FillId(1)
    /\ spanDurations[1].dur # Ms(250000)
    /\ spanDurations[1].dur.frac # 0

\* C10: no onEnd call raises, and a call for a span without a start or an
\* end time, or whose reading fails, leaves the table exactly as it was.
C10_OnEndNeverRaises ==
    [][/\ ~onEndRaised'
       /\ \A span \in TrackerSpans :
            (lastOnEnd' = SpanKind(span) /\ SpanKind(span) # "timed" /\ OnEnd(span))
            => spanDurations' = spanDurations]_vars

\* C10 witness: onEnd has been called with a span that has no times, then
\* with one that cannot be read, on a table at its cap.
C10_Witness ==
    /\ nEnds = 2
    /\ lastOnEnd = "unreadable"
    /\ spanDurations = Fill(MaxTableSize)
    /\ ~onEndRaised

(***************************************************************************)
(* Properties of the interceptor (checked under Spec).                     *)
(***************************************************************************)
\* a deferred callback of request r has not run yet
Pending(r) == \E i \in 1..Len(timers) : timers[i].r = r

\* the handler's stream has ended and every deferred callback has run
Settled(r) == Terminated(req[r].produced) /\ ~Pending(r)

Last(events) == events[Len(events)]

\* the request's body or headers are over their size limit
Oversized(q) ==
    \/ calculateDataSize(q.body) > maxBodySize
    \/ calculateDataSize(q.headers) > maxHeadersSize

\* C2: a request with a well-formed context and data within the size
\* limits, whose processing intercept set up without an internal exception,
\* never has more than one entry, and once its stream has ended and its
\* deferred callbacks have run it has exactly one: info if the handler
\* succeeded, error if it failed.
C2_OneEntryPerRequest ==
    \A r \in Reqs :
        req[r].path = "instrumented"
        => /\ Len(emitted[r]) <= 1
           /\ Settled(r)
              => /\ Len(emitted[r]) = 1
                 /\ emitted[r][1].level =
                        IF Last(req[r].produced).type = "error"
                        THEN "error" ELSE "info"

\* C3: on the instrumented path every error of the handler's stream is
\* passed on as the same error, at the same position of the stream,
\* whatever the deferred logging does afterwards.
C3_SameErrorDelivered ==
    \A r \in Reqs :
        req[r].path = "instrumented"
        => \A i \in 1..Len(req[r].produced) :
              req[r].produced[i].type = "error"
              => /\ i <= Len(req[r].delivered)
                 /\ req[r].delivered[i] = req[r].produced[i]

\* C3 witness: the handler failed with an HttpException after a value, the
\* caller got that HttpException, and both deferred callbacks ran and failed
\* to log.
C3_Witness ==
    \E r \in Reqs :
        /\ req[r].path = "instrumented"
        /\ Len(req[r].delivered) = 2
        /\ Last(req[r].delivered) = ErrorEvent("HttpException")
        /\ Settled(r)
        /\ req[r].reads = 2
        /\ emitted[r] = <<>>

\* C4: intercept never raises to its caller, the handler is invoked once,
\* and the caller sees exactly the events of the handler's stream, whether
\* or not an exception happened inside intercept or a deferred callback.
C4_InternalFailuresContained ==
    \A r \in Reqs :
        /\ ~req[r].thrown
        /\ req[r].path # "idle" => req[r].handleCalls = 1
        /\ req[r].delivered = req[r].produced

\* C4 witness: reading the request data raised inside intercept, and the
\* handler's value and completion still reached the caller.
C4_Witness ==
    \E r \in Reqs :
        /\ req[r].failure = "extract"
        /\ req[r].delivered = <<NextEvent(RespData), CompleteEvent>>

\* C5: when the context is absent, has no switchToHttp, or yields a request
\* that is not an object, the handler's stream is returned as it is: the
\* handler is invoked once, nothing is handed to the Logger, no deferred
\* callback is scheduled and no duration is resolved.
C5_InvalidContextBypass ==
    \A r \in Reqs :
        (req[r].path # "idle" /\ (req[r].ctx # "ok" \/ req[r].request.kind # "object"))
        => /\ ~req[r].thrown
           /\ req[r].handleCalls = 1
           /\ req[r].delivered = req[r].produced
           /\ emitted[r] = <<>>
           /\ ~Pending(r)
           /\ req[r].reads = 0

\* C5 witness: intercept was called with a request that is a string, and
\* the handler's value and error went through.
C5_Witness ==
    \E r \in Reqs :
        /\ req[r].ctx = "ok"
        /\ req[r].request = NotAnObject
        /\ req[r].path = "notObject"
        /\ req[r].delivered = <<NextEvent(RespData), ErrorEvent("HttpException")>>

\* C6: a request whose body or headers are over their limit, read without
\* an injected exception, has exactly one entry: a warn entry with duration
\* 0 and the oversized part replaced by the placeholder; the handler is
\* invoked once, untouched, and no deferred callback is scheduled.
C6_OversizeWarn ==
    \A r \in Reqs :
        (/\ req[r].path # "idle"
         /\ req[r].ctx = "ok"
         /\ req[r].request.kind = "object"
         /\ req[r].failure \notin {"context", "extract", "logger"}
         /\ Oversized(req[r].request))
        => /\ Len(emitted[r]) = 1
           /\ emitted[r][1].level = "warn"
           /\ emitted[r][1].durationMs = MsZero
           /\ calculateDataSize(req[r].request.body) > maxBodySize
              => emitted[r][1].body = TruncatedTooLarge
           /\ calculateDataSize(req[r].request.headers) > maxHeadersSize
              => emitted[r][1].headers = TruncatedTooLarge
           /\ req[r].handleCalls = 1
           /\ req[r].delivered = req[r].produced
           /\ ~Pending(r)
           /\ req[r].reads = 0

\* the duration the table holds for the span active in the callback, if that
\* lookup works, and else for the captured span
TrackedForCallback(active, fault, spanId) ==
    IF fault # "span" /\ active # NoSpan /\ MapHas(spanDurations, active)
    THEN MapGet(spanDurations, active)
    ELSE MapGet(spanDurations, spanId)

\* C7 as stated: if the table held the duration of the captured span when
\* the handler failed, the error entry carries that duration, not a
\* wall-clock one.
C7_CapturedDurationAtFailure ==
    [][(/\ timers # <<>>
        /\ timers' = Tail(timers)
        /\ Head(timers).kind = "error"
        /\ Head(timers).tracked # <<>>)
       => \A active \in Spans \cup {NoSpan}, fault \in CallbackFaults, clock \in Clock :
            (fault # "logger" /\ FireTimer(active, fault, clock))
            => LET e == Last(emitted'[Head(timers).r])
               IN  /\ e.level = "error"
                   /\ e.src # "wall"
                   /\ e.durationMs = Head(timers).tracked[1]]_vars

\* C7 amended: if the table holds the duration of the captured span when
\* the deferred callback runs, the error entry carries a tracked duration,
\* never a wall-clock one: that of the span active in the callback if the
\* table holds it, and else that of the captured span.
C7_TrackedDurationAtCallback ==
    [][(/\ timers # <<>>
        /\ timers' = Tail(timers)
        /\ Head(timers).kind = "error"
        /\ MapHas(spanDurations, req[Head(timers).r].spanId))
       => \A active \in Spans \cup {NoSpan}, fault \in CallbackFaults, clock \in Clock :
            (fault # "logger" /\ FireTimer(active, fault, clock))
            => LET e == Last(emitted'[Head(timers).r])
               IN  /\ e.level = "error"
                   /\ e.src \in {"active", "captured"}
                   /\ <<e.durationMs>> =
                          TrackedForCallback(active, fault,
                                             req[Head(timers).r].spanId)]_vars

\* C7 witness: the captured span s1 ended before the handler failed, another
\* span ended with a longer duration, and the error entry has the duration
\* of s1, read by the captured id.
C7_Witness ==
    \E r \in Reqs :
        /\ req[r].spanId = SpanName(1)
        /\ Len(spanDurations) = 2
        /\ Len(emitted[r]) = 1
        /\ emitted[r][1].level = "error"
        /\ emitted[r][1].src = "captured"
        /\ emitted[r][1].durationMs = Ms(500000)

(***************************************************************************)
(* SpecBurst: NReq requests with a well-formed context and small data are  *)
(* intercepted concurrently, without injected failures, while the spans of *)
(* all of them end in any order.  A request is intercepted at the latest   *)
(* clock reading; the clock advances between the deferred callbacks.       *)
(***************************************************************************)
NextBurst ==
    \/ \E r \in Reqs, active \in Spans \cup {NoSpan} :
          /\ active \in SpansOf(r) \cup {NoSpan}
          /\ Intercept(r, "ok", Request(HSmall, BSmall), "none", active, r, now)
    \/ \E r \in Reqs : HandlerNext(r, RespData)
    \/ \E r \in Reqs : HandlerComplete(r)
    \/ \E r \in Reqs, e \in Errors : HandlerError(r, e)
    \/ \E active \in Spans \cup {NoSpan}, clock \in Clock :
          FireTimer(active, "none", clock)
    \/ \E span \in RequestSpans : OnEnd(span)
    \/ Shutdown

SpecBurst == Init /\ [][NextBurst]_vars

\* C1: the duration of every completion entry of a request is either a
\* tracked duration read from a span of that request or the request's own
\* wall-clock measurement, never one recorded for another request's span.
C1_OwnDurationOnly ==
    \A r \in Reqs :
        \A i \in 1..Len(emitted[r]) :
            \/ emitted[r][i].src = "wall"
            \/ emitted[r][i].of \in SpansOf(r)

(***************************************************************************)
(* Further properties of the span processor (checked under SpecTracker).   *)
(***************************************************************************)
\* C11: a shutdown leaves the table empty whatever it held, also when it
\* was empty already, and an onEnd of a timed span on the emptied table
\* leaves exactly that span's entry.
C11_ShutdownClears ==
    [][/\ (nEnds' = nEnds /\ Shutdown) => spanDurations' = <<>>
       /\ \A span \in TrackerSpans :
            (/\ lastOnEnd' = SpanKind(span)
             /\ SpanKind(span) = "timed"
             /\ spanDurations = <<>>
             /\ OnEnd(span))
            => spanDurations' =
                   <<[id |-> span.spanId, dur |-> Ms(ExactNs(span))]>>]_vars

\* C11 witness: two timed spans ended, the last one recorded, and the table
\* is empty again: a shutdown cleared what they left.
C11_Witness ==
    /\ nEnds = 2
    /\ lastOnEnd = "timed"
    /\ spanDurations = <<>>

(***************************************************************************)
(* Further properties of the interceptor (checked under Spec).             *)
(***************************************************************************)
LowerHex ==
    {"0", "1", "2", "3", "4", "5", "6", "7", "8", "9", "a", "b", "c", "d", "e", "f"}

\* id is what generateHexId(n) gave for some random stream, and that is n
\* characters of 0-9a-f
Synthesized(id, n, used) ==
    \E seed \in Seeds :
        /\ id = generateHexId(n, seed, used)
        /\ Len(id) = n
        /\ Len(hexChars(n, seed, used)) = n
        /\ \A i \in 1..n : hexChars(n, seed, used)[i] \in LowerHex

\* C12: the trace and span ids of a request are resolved by intercept: those
\* of the span active then, or, with no span active or a failing lookup,
\* synthesized strings of 32 and 16 characters of 0-9a-f; afterwards no step
\* changes them, and every completion entry of the request carries exactly
\* them, neither empty.
C12_CorrelationIdsFixedAtEntry ==
    [][\A r \in Reqs :
        /\ (req[r].path = "idle" /\ req'[r].path = "instrumented")
           => \A in \in InterceptInputs, fault \in InterceptFaults,
                 active \in Spans \cup {NoSpan}, seed \in Seeds, clock \in Clock :
                Intercept(r, in.ctx, in.request, fault, active, seed, clock)
                => IF fault # "trace" /\ active # NoSpan
                   THEN /\ req'[r].traceId = TraceIdOf(active)
                        /\ req'[r].spanId = active
                   ELSE /\ Synthesized(req'[r].traceId, 32, 0)
                        /\ Synthesized(req'[r].spanId, 16, 32)
        /\ req[r].path = "instrumented"
           => /\ req'[r].traceId = req[r].traceId
              /\ req'[r].spanId = req[r].spanId
        /\ \A i \in 1..Len(emitted'[r]) :
              emitted'[r][i].level \in {"info", "error"}
              => /\ emitted'[r][i].traceId = req'[r].traceId
                 /\ emitted'[r][i].spanId = req'[r].spanId
                 /\ emitted'[r][i].traceId # ""
                 /\ emitted'[r][i].spanId # ""]_vars

\* C12 witness: the request was intercepted while its span s1 was active;
\* s1 and another span ended, the callback ran while that other span was
\* active, and the entry carries the ids of s1.
C12_Witness ==
    \E r \in Reqs :
        /\ req[r].spanId = SpanName(1)
        /\ Len(spanDurations) = 2
        /\ Len(emitted[r]) = 1
        /\ emitted[r][1].src = "active"
        /\ emitted[r][1].of # SpanName(1)
        /\ emitted[r][1].spanId = SpanName(1)
        /\ emitted[r][1].traceId = TraceIdOf(SpanName(1))

(***************************************************************************)
(* SpecHelpers: the interceptor's helper functions, each called with       *)
(* arguments drawn from the values below.                                  *)
(***************************************************************************)
BodyFieldNames == {"password", "token", "secret", "key", "authorization", "name"}

HeaderFieldNames ==
    {"authorization", "cookie", "x-api-key", "x-auth-token", "user-agent"}

\* objects with any of the given fields, all holding a one-character string
\* or all holding the empty string
ObjectsOver(names) ==
    {Obj([k \in S |-> val]) : S \in SUBSET names, val \in {Str("v", 1), Str("", 0)}}

\* values over the body ceiling: an object, one with a sensitive field, and a
\* string
BigBodies ==
    {BBig,
     Obj([k \in {"password", "data"} |->
            IF k = "password" THEN Str("hunter2", 7) ELSE Str("BBBB...", 1048576)]),
     Str("SSSS...", 1048575)}

BigHeaders ==
    {HBig,
     Obj([k \in {"authorization", "user-agent"} |->
            IF k = "authorization" THEN Str("Basic c2VjcmV0", 14)
            ELSE Str("AAAA...", 65536)])}

SanitizeBodyArgs == ObjectsOver(BodyFieldNames) \cup BigBodies \cup {JsNull, JsUndefined}

SanitizeHeadersArgs ==
    ObjectsOver(HeaderFieldNames) \cup BigHeaders \cup {JsNull, JsUndefined}

SizeArgs ==
    {JsUndefined, JsNull, Str("", 0), Str("test", 4), Num(0), Num(150), Num(0 - 5),
     Bool(TRUE), Bool(FALSE), Obj(<<>>), Obj([k \in {"message"} |-> Str("test", 4)]),
     Obj([k \in {"nested"} |-> Obj([j \in {"id"} |-> Num(42)])]),
     Arr(<<>>), Arr(<<Num(1), Num(2)>>),
     Cyclic([k \in {"self"} |-> JsUndefined]),
     Cyclic([k \in {"self", "name"} |-> IF k = "self" THEN JsUndefined ELSE Str("ann", 3)]),
     JsFunction}

\* a call fn(arg) that returned result and left its argument as after
Returned(fn, arg, result, after) ==
    [fn |-> fn, arg |-> arg, result |-> result, after |-> after, raised |-> FALSE]

\* sanitizeBody(body): the redaction works on the copy of line 374
SanitizeBody(body) ==
    /\ call' = Returned("sanitizeBody", body, sanitizeBody(body), body)
    /\ UNCHANGED <<spanDurations, nEnds, onEndRaised, lastOnEnd, now, req, timers, emitted>>

\* sanitizeHeaders(headers): the redaction works on the copy of line 399
SanitizeHeaders(headers) ==
    /\ call' = Returned("sanitizeHeaders", headers, sanitizeHeaders(headers), headers)
    /\ UNCHANGED <<spanDurations, nEnds, onEndRaised, lastOnEnd, now, req, timers, emitted>>

CalculateDataSize(data) ==
    /\ call' = Returned("calculateDataSize", data, Num(calculateDataSize(data)), data)
    /\ UNCHANGED <<spanDurations, nEnds, onEndRaised, lastOnEnd, now, req, timers, emitted>>

CalculateResponseSize(data) ==
    /\ call' = Returned("calculateResponseSize", data,
                        Num(calculateResponseSize(data)), data)
    /\ UNCHANGED <<spanDurations, nEnds, onEndRaised, lastOnEnd, now, req, timers, emitted>>

SafeCalculateSize(data) ==
    /\ call' = Returned("safeCalculateSize", data, Num(safeCalculateSize(data)), data)
    /\ UNCHANGED <<spanDurations, nEnds, onEndRaised, lastOnEnd, now, req, timers, emitted>>

NextHelpers ==
    \/ \E body \in SanitizeBodyArgs : SanitizeBody(body)
    \/ \E headers \in SanitizeHeadersArgs : SanitizeHeaders(headers)
    \/ \E data \in SizeArgs : CalculateDataSize(data)
    \/ \E data \in SizeArgs : CalculateResponseSize(data)
    \/ \E data \in SizeArgs : SafeCalculateSize(data)

SpecHelpers == Init /\ [][NextHelpers]_vars

\* the value has a JSON text and that is longer than max
Exceeds(v, max) == v.kind \in {"object", "array", "string"} /\ JsonLen(v) > max

\* C13: for an object body within the ceiling, sanitizeBody returns an
\* object with the same fields in which each of password, token, secret,
\* key and authorization that is present holds '[REDACTED]' and every other
\* field holds its original value, and the argument is left as it was.
C13_SanitizeBodyRedacts ==
    (/\ call.fn = "sanitizeBody"
     /\ call.arg.kind = "object"
     /\ ~Exceeds(call.arg, maxBodySize))
    => /\ call.result.kind = "object"
       /\ DOMAIN call.result.fields = DOMAIN call.arg.fields
       /\ \A k \in DOMAIN call.arg.fields :
            call.result.fields[k] =
                IF k \in {"password", "token", "secret", "key", "authorization"}
                THEN Redacted ELSE call.arg.fields[k]
       /\ call.after = call.arg

\* the fields of a truncation marker
MarkerFields == {"[TRUNCATED]", "[ORIGINAL_SIZE]"}

\* C14: for a body over 1 MiB, and for headers over 64 KiB, the result of
\* sanitizeBody, resp. sanitizeHeaders, is a marker of two fields, one of
\* them the original size; it has none of the argument's fields or values
\* and no '[REDACTED]'.
C14_OversizeGivesMarkerOnly ==
    (\/ call.fn = "sanitizeBody" /\ Exceeds(call.arg, maxBodySize)
     \/ call.fn = "sanitizeHeaders" /\ Exceeds(call.arg, maxHeadersSize))
    => /\ call.result.kind = "object"
       /\ DOMAIN call.result.fields = MarkerFields
       /\ call.result.fields["[ORIGINAL_SIZE]"] = Num(JsonLen(call.arg))
       /\ call.result.fields["[TRUNCATED]"].kind = "string"
       /\ \A k \in MarkerFields :
            /\ call.result.fields[k] # Redacted
            /\ call.result.fields[k] # call.arg
            /\ call.arg.kind = "object"
               => /\ k \notin DOMAIN call.arg.fields
                  /\ \A j \in DOMAIN call.arg.fields :
                        call.result.fields[k] # call.arg.fields[j]

\* C14 witness: sanitizeBody was called with an object over the ceiling that
\* has a password, and returned a marker with the size.
C14_Witness ==
    /\ call.fn = "sanitizeBody"
    /\ call.arg.kind = "object"
    /\ "password" \in DOMAIN call.arg.fields
    /\ Exceeds(call.arg, maxBodySize)
    /\ call.result.fields["[ORIGINAL_SIZE]"].val > maxBodySize

\* the size the claim C15 names for a value
NamedSize(v) ==
    CASE v.kind \in {"null", "undefined"} -> 0
      [] v.kind = "string" -> v.len
      [] v.kind = "number" -> NumLen(v.val)
      [] v.kind = "boolean" -> IF v.val THEN 4 ELSE 5
      [] v.kind \in {"object", "array"} -> JsonLen(v)
      [] v.kind \in {"cyclic", "function"} -> 0

\* C15: a size calculation never raises and returns 0 for null and
\* undefined, the number of characters of a string, the length of the
\* decimal or boolean text of a number or boolean, the length of the JSON
\* text of an object or array, and 0 for a cyclic object or a function.
C15_SizeOfValue ==
    call.fn \in {"calculateDataSize", "calculateResponseSize", "safeCalculateSize"}
    => /\ ~call.raised
       /\ call.result = Num(NamedSize(call.arg))

\* C16: a request object without headers, intercepted without an injected
\* exception, whose handler emits a value and completes, never makes
\* intercept raise and, once its callbacks have run, has a completion entry
\* whose headers are the empty map.
C16_MissingFieldsFallback ==
    \A r \in Reqs :
        (/\ req[r].ctx = "ok"
         /\ req[r].request.kind = "object"
         /\ req[r].request.headers.kind = "undefined"
         /\ ~Oversized(req[r].request)
         /\ req[r].failure \notin {"context", "extract", "logger"}
         /\ req[r].produced = <<NextEvent(RespData), CompleteEvent>>
         /\ ~Pending(r))
        => /\ ~req[r].thrown
           /\ Len(emitted[r]) >= 1
           /\ \A i \in 1..Len(emitted[r]) : emitted[r][i].headers = Obj(<<>>)

\* ---------------------------------------------------------------------
\* CollectorExporter (src/index.ts)

\* this.maxLogSize, line 34
maxLogSize == 1048576

\* characters in a duration string handed to parseDurationMs
MaxDurationLen == 5

DurationChars == {"5", "0", "m", "s", "u", "b", " "}

\* a string held as its characters
Text(cs) == [kind |-> "string", chars |-> cs, len |-> Len(cs)]

\* the number NaN
JsNaN == [kind |-> "nan"]

IsWhite(c) == c = " "

RECURSIVE TrimStart(_)
TrimStart(cs) ==
    IF cs # <<>> /\ IsWhite(Head(cs)) THEN TrimStart(Tail(cs)) ELSE cs

RECURSIVE TrimEnd(_)
TrimEnd(cs) ==
    IF cs # <<>> /\ IsWhite(cs[Len(cs)]) THEN TrimEnd(SubSeq(cs, 1, Len(cs) - 1)) ELSE cs

\* s.trim()
Trim(cs) == TrimEnd(TrimStart(cs))

\* s.toLowerCase()
ToLower(cs) ==
    [i \in 1..Len(cs) |->
        CASE cs[i] = "M" -> "m"
          [] cs[i] = "S" -> "s"
          [] cs[i] = "U" -> "u"
          [] cs[i] = "B" -> "b"
          [] OTHER -> cs[i]]

\* s.endsWith(suffix)
EndsWith(cs, suffix) ==
    /\ Len(cs) >= Len(suffix)
    /\ SubSeq(cs, Len(cs) - Len(suffix) + 1, Len(cs)) = suffix

\* s.slice(0, -n)
Slice(cs, n) == SubSeq(cs, 1, Len(cs) - n)

IsDigit(c) == c \in {"0", "1", "2", "3", "4", "5", "6", "7", "8", "9"}

DigitVal(c) ==
    CASE c = "0" -> 0 [] c = "1" -> 1 [] c = "2" -> 2 [] c = "3" -> 3 [] c = "4" -> 4
      [] c = "5" -> 5 [] c = "6" -> 6 [] c = "7" -> 7 [] c = "8" -> 8 [] c = "9" -> 9

RECURSIVE DecimalValue(_)
DecimalValue(cs) ==
    IF cs = <<>> THEN 0
    ELSE DecimalValue(SubSeq(cs, 1, Len(cs) - 1)) * 10 + DigitVal(cs[Len(cs)])

AllDigits(cs) == cs # <<>> /\ \A i \in 1..Len(cs) : IsDigit(cs[i])

\* Number(s) of a string of the characters above: white space around the
\* numeral is skipped, the empty string is 0, digits are a decimal numeral
\* and anything else is NaN
Number(cs) ==
    LET t == Trim(cs)
    IN  IF t = <<>> THEN Num(0)
        ELSE IF AllDigits(t) THEN Num(DecimalValue(t))
        ELSE JsNaN

\* Number(v) of a value that is neither a string nor a finite number
ToNumber(v) ==
    CASE v.kind = "boolean" -> Num(IF v.val THEN 1 ELSE 0)
      [] v.kind \in {"nan", "object", "cyclic", "function"} -> JsNaN

\* x * k and Math.floor(x / k), where NaN stays NaN
Times(x, k) == IF x.kind = "nan" THEN JsNaN ELSE Num(x.val * k)

FloorDiv(x, k) == IF x.kind = "nan" THEN JsNaN ELSE Num(x.val \div k)

\* parseDurationMs, lines 37-48: the test for the suffix 's' precedes the
\* test for the suffix 'us'
parseDurationMs(raw) ==
    IF raw.kind \in {"undefined", "null"} THEN JsUndefined
    ELSE IF raw.kind = "number" THEN raw
    ELSE IF raw.kind # "string" THEN ToNumber(raw)
    ELSE LET s == ToLower(Trim(raw.chars))
         IN  IF EndsWith(s, <<"m", "s">>) THEN Number(Slice(s, 2))
             ELSE IF EndsWith(s, <<"s">>) THEN Times(Number(Slice(s, 1)), 1000)
             ELSE IF EndsWith(s, <<"u", "s">>) THEN FloorDiv(Number(Slice(s, 2)), 1000)
             ELSE IF Number(s).kind # "nan" THEN Number(s)
             ELSE JsUndefined

\* calculateDataSize of the exporter, lines 50-58: a value that cannot be
\* serialized counts 0
RECURSIVE HasCycle(_)
HasCycle(v) ==
    \/ v.kind = "cyclic"
    \/ v.kind = "object" /\ \E k \in DOMAIN v.fields : HasCycle(v.fields[k])
    \/ v.kind = "array" /\ \E i \in 1..Len(v.items) : HasCycle(v.items[i])

exporterDataSize(data) ==
    IF Falsy(data) THEN 0
    ELSE IF HasCycle(data) \/ StringifyUndefined(data) THEN 0
    ELSE JsonLen(data)

\* a Date: the instant it holds, and whether it is a valid one
JsDate(at, valid) == [kind |-> "date", at |-> at, valid |-> valid]

\* new Date()
NewDate == JsDate("now", TRUE)

\* date.toISOString() of a valid Date
toISOString(date) == Str(date.at, 24)

\* '[TRUNCATED]' of line 67
TruncatedText(size, maxSize) ==
    Str("Dados muito grandes (" \o ToString(size) \o " bytes). Tamanho máximo: "
            \o ToString(maxSize) \o " bytes",
        52 + Digits(size) + Digits(maxSize))

\* truncateLargeData, lines 60-71
truncateLargeData(data, maxSize) ==
    IF Falsy(data) THEN data
    ELSE LET size == exporterDataSize(data)
         IN  IF size <= maxSize THEN data
             ELSE Obj([k \in {"[TRUNCATED]", "[ORIGINAL_SIZE]", "[TRUNCATED_AT]"} |->
                        CASE k = "[TRUNCATED]" -> TruncatedText(size, maxSize)
                          [] k = "[ORIGINAL_SIZE]" -> Num(size)
                          [] k = "[TRUNCATED_AT]" -> toISOString(NewDate)])

\* typeof v === 'object' for a value that is not null
IsObject(v) == v.kind \in {"object", "cyclic", "array", "date"}

\* o[k], and o?.[k]: undefined when the property is missing or o has none
Get(o, k) ==
    IF o.kind \in {"object", "cyclic"} /\ k \in DOMAIN o.fields
    THEN o.fields[k] ELSE JsUndefined

\* o[k] = v
SetField(o, k, v) ==
    [o EXCEPT !.fields = [j \in DOMAIN o.fields \cup {k} |->
                             IF j = k THEN v ELSE o.fields[j]]]

\* a || b and a ?? b
OrElse(a, b) == IF Falsy(a) THEN b ELSE a

Coalesce(a, b) == IF a.kind \in {"undefined", "null"} THEN b ELSE a

\* isPrim of line 333
isPrim(x) == x.kind \in {"string", "number", "nan", "boolean", "null", "undefined"}

\* a variant that takes no array for a primitive value
isPrimitiveOnly(v) == isPrim(v)

\* isPrimitiveOrArrayOfPrimitives, lines 332-337
isPrimitiveOrArrayOfPrimitives(v) ==
    IF isPrim(v) THEN TRUE
    ELSE IF v.kind = "array" THEN \A i \in 1..Len(v.items) : isPrim(v.items[i])
    ELSE FALSE

\* the tagged values of the wire format
StringValue(str) == [tag |-> "stringValue", value |-> str]

IntValue(n) == [tag |-> "intValue", value |-> Num(n)]

BoolValue(b) == [tag |-> "boolValue", value |-> Bool(b)]

ArrayValue(vs) == [tag |-> "arrayValue", values |-> vs]

KvlistValue(kvs) == [tag |-> "kvlistValue", values |-> kvs]

\* toAnyValue recurses for ever, until the stack is exhausted, on a value
\* that refers back to itself
toAnyValueThrows(v) == HasCycle(v)

\* toAnyValue, lines 309-330, of a value it returns for; numbers are
\* integers, and a Date has no enumerable property
RECURSIVE toAnyValue(_)
toAnyValue(v) ==
    CASE v.kind \in {"null", "undefined"} -> StringValue(Str("", 0))
      [] v.kind = "string" -> StringValue(v)
      [] v.kind = "number" ->
            IF DOMAIN v = {"kind", "val"} THEN IntValue(v.val)
            ELSE [tag |-> "doubleValue", value |-> v]
      [] v.kind = "nan" -> [tag |-> "doubleValue", value |-> JsNaN]
      [] v.kind = "boolean" -> BoolValue(v.val)
      [] v.kind = "array" ->
            ArrayValue([i \in 1..Len(v.items) |-> toAnyValue(v.items[i])])
      [] v.kind = "object" ->
            KvlistValue([k \in DOMAIN v.fields |-> toAnyValue(v.fields[k])])
      [] v.kind = "date" -> KvlistValue(<<>>)
      [] v.kind = "function" -> StringValue(Str("function", 8))

\* getSeverityNumber, lines 339-349
getSeverityNumber(level) ==
    CASE level = "trace" -> 1
      [] level = "debug" -> 5
      [] level = "info" -> 9
      [] level = "warn" -> 13
      [] level = "error" -> 17
      [] level = "fatal" -> 21
      [] OTHER -> 9

\* level.toUpperCase() of the levels of the model
toUpperCase(level) ==
    CASE level = "info" -> "INFO"
      [] level = "error" -> "ERROR"
      [] level = "warn" -> "WARN"
      [] OTHER -> level

\* String(v) of a string or an integer
String(v) == IF v.kind = "number" THEN Str(ToString(v.val), NumLen(v.val)) ELSE v

\* Number(v) of a value read from an entry
NumberOf(v) ==
    CASE v.kind = "number" -> v
      [] v.kind = "null" -> Num(0)
      [] v.kind = "string" /\ v.len = 0 -> Num(0)
      [] v.kind = "boolean" -> Num(IF v.val THEN 1 ELSE 0)
      [] OTHER -> JsNaN

\* typeof x === 'number' && isFinite(x)
IsFiniteNumber(x) == x.kind = "number"

\* a number with two decimals, given in hundredths
Dec(cents) == [kind |-> "number", val |-> cents \div 100, cents |-> cents % 100]

\* Math.round(x) of a number that is not negative: a half rounds up
MathRound(x) ==
    IF "cents" \in DOMAIN x THEN x.val + (IF x.cents >= 50 THEN 1 ELSE 0) ELSE x.val

\* a string that holds '(' numeral unit ')': match is the numeral as a
\* number and the unit
Message(txt, len, match) == [kind |-> "string", txt |-> txt, len |-> len, match |-> match]

\* the match of /\((\d+(?:\.\d+)?)\s*(ms|s|us)\)/i in a message of the
\* model: the number and the unit, or nothing
MatchDuration(message) ==
    IF "match" \in DOMAIN message THEN message.match
    ELSE CASE message.txt = "done (5 ms)" -> <<Num(5), "ms">>
           [] message.txt = "done (2 s)" -> <<Num(2), "s">>
           [] OTHER -> <<>>

\* effectiveDurationMs of buildAttributes, lines 173-203
effectiveDurationMs(logEntry, duration) ==
    LET perf == parseDurationMs(Get(Get(logEntry, "performance"), "duration"))
        afterPerf == IF duration.kind = "undefined" /\ IsFiniteNumber(perf)
                     THEN perf ELSE duration
        top == parseDurationMs(Coalesce(Get(logEntry, "durationMs"),
                                        Get(logEntry, "duration")))
        afterTop == IF afterPerf.kind = "undefined" /\ IsFiniteNumber(top)
                    THEN top ELSE afterPerf
        message == Get(logEntry, "message")
        m == IF message.kind = "string" THEN MatchDuration(message) ELSE <<>>
    IN  IF afterTop.kind = "undefined" /\ m # <<>>
        THEN CASE m[2] = "ms" -> m[1]
               [] m[2] = "s" -> Times(m[1], 1000)
               [] m[2] = "us" -> FloorDiv(m[1], 1000)
        ELSE afterTop

\* an attribute of a log record
Attr(key, value) == [key |-> key, value |-> value]

\* the attribute { key, stringValue: String(v) } if v is truthy
StringAttr(key, v) == IF Falsy(v) THEN {} ELSE {Attr(key, StringValue(String(v)))}

\* the attribute { key, intValue: Number(v) } if that number is finite
IntAttr(key, v) ==
    IF NumberOf(v).kind = "number" THEN {Attr(key, IntValue(NumberOf(v).val))} ELSE {}

excludedFields == {"traceId", "spanId", "trace_id", "span_id"}

\* the key of the attribute of the context entry k, lines 254-255
attrKey(k) ==
    IF k = "date" THEN "date_utc"
    ELSE IF k = "request_id" THEN "request.id"
    ELSE k

\* Object.entries(context) for the context of an entry: the properties of
\* an object, none for any other value
entries(context) ==
    IF context.kind \in {"object", "cyclic"} THEN DOMAIN context.fields ELSE {}

\* the filter of lines 262-271 keeps an attribute unless its stringValue
\* is the empty string
kept(a) == ~(a.value.tag = "stringValue" /\ a.value.value.len = 0)

\* buildAttributes, lines 169-272, as the set of the attributes returned;
\* the attributes of lines 209-214 are never pushed
buildAttributes(logEntry, duration) ==
    LET effective == effectiveDurationMs(logEntry, duration)
        context == Get(logEntry, "context")
        request == Get(context, "request")
        response == Get(context, "response")
        attrs ==
            StringAttr("request.id", Coalesce(Get(logEntry, "requestId"),
                                              Get(logEntry, "request_id")))
            \cup StringAttr("correlation.id", Get(logEntry, "correlationId"))
            \cup StringAttr("user.id", Get(logEntry, "userId"))
            \cup StringAttr("http.method", Get(request, "method"))
            \cup StringAttr("url.path", Get(request, "url"))
            \cup IntAttr("http.status_code", Get(response, "statusCode"))
            \cup IntAttr("response.size", Get(response, "responseSize"))
            \cup (IF IsFiniteNumber(effective)
                  THEN {Attr("duration_ms", IntValue(MathRound(effective)))} ELSE {})
            \cup StringAttr("user.agent", Get(request, "userAgent"))
            \cup StringAttr("client.ip", Get(request, "ip"))
            \cup StringAttr("message", Get(logEntry, "message"))
            \cup {Attr(attrKey(k), toAnyValue(Get(context, k))) :
                    k \in {j \in entries(context) :
                             /\ j \notin excludedFields
                             /\ isPrimitiveOrArrayOfPrimitives(Get(context, j))}}
    IN  {a \in attrs : kept(a)}

\* buildBodyObject, lines 274-307, for an entry whose timestamp is a Date
buildBodyObject(logEntry, duration) ==
    LET context == Get(logEntry, "context")
        complex == {k \in entries(context) :
                      ~isPrimitiveOrArrayOfPrimitives(Get(context, k))}
        value == [k \in {"ip", "userAgent", "date_utc", "performance", "duration_ms",
                         "request", "response", "context", "error"} |->
                    CASE k = "ip" -> Get(Get(context, "request"), "ip")
                      [] k = "userAgent" -> Get(Get(context, "request"), "userAgent")
                      [] k = "date_utc" -> toISOString(Get(logEntry, "timestamp"))
                      [] k = "duration_ms" -> NumberOf(duration)
                      [] k = "context" -> Obj([j \in complex |-> Get(context, j)])
                      [] OTHER -> Get(logEntry, k)]
        present == {"ip", "userAgent", "date_utc"}
                   \cup {k \in {"performance", "request", "response", "error"} :
                           ~Falsy(Get(logEntry, k))}
                   \cup (IF NumberOf(duration).kind = "number"
                         THEN {"duration_ms"} ELSE {})
                   \cup (IF complex # {} THEN {"context"} ELSE {})
    IN  Obj([k \in present |-> value[k]])

\* the record of the payload of lines 124-147 for the entry as it is after
\* lines 80-98
Payload(logEntry) ==
    LET duration == parseDurationMs(
                        Coalesce(Get(logEntry, "durationMs"),
                                 Get(Get(logEntry, "performance"), "duration")))
        context == OrElse(Get(logEntry, "context"), Obj(<<>>))
        level == Get(logEntry, "level").txt
    IN  [resource |->
            [k \in {"service.name", "service.version", "deployment.environment"} |->
                CASE k = "service.name" ->
                        StringValue(OrElse(Get(logEntry, "service"), Str("unknown", 7)))
                  [] k = "service.version" ->
                        StringValue(OrElse(Get(logEntry, "version"), Str("1.0.0", 5)))
                  [] k = "deployment.environment" ->
                        StringValue(OrElse(Get(logEntry, "environment"),
                                           Str("production", 10)))],
         timeUnixNano |-> Get(logEntry, "timestamp").at,
         severityText |-> toUpperCase(level),
         severityNumber |-> getSeverityNumber(level),
         body |-> toAnyValue(buildBodyObject(logEntry, duration)),
         attributes |-> buildAttributes(logEntry, duration),
         traceId |-> OrElse(Get(context, "traceId"),
                     OrElse(Get(context, "trace_id"),
                     OrElse(Get(logEntry, "traceId"),
                     OrElse(Get(logEntry, "trace_id"), JsUndefined)))),
         spanId |-> OrElse(Get(context, "spanId"),
                    OrElse(Get(context, "span_id"),
                    OrElse(Get(logEntry, "spanId"),
                    OrElse(Get(logEntry, "span_id"), JsUndefined))))]

\* lines 80-98: an entry over the ceiling is replaced by the marker, then a
\* timestamp that is no Date and a level that is no string get a default
prepared(logEntry) ==
    LET sized == IF exporterDataSize(logEntry) > maxLogSize
                 THEN truncateLargeData(logEntry, maxLogSize) ELSE logEntry
        timestamp == Get(sized, "timestamp")
        dated == IF Falsy(timestamp) \/ timestamp.kind # "date"
                 THEN SetField(sized, "timestamp", NewDate) ELSE sized
        level == Get(dated, "level")
    IN  IF Falsy(level) \/ level.kind # "string"
        THEN SetField(dated, "level", Str("info", 4)) ELSE dated

\* building the payload raises: toISOString of an invalid Date (line 276),
\* toAnyValue of a body value that refers back to itself (line 139)
PayloadThrows(logEntry) ==
    \/ ~Get(logEntry, "timestamp").valid
    \/ \E k \in {"performance", "request", "response", "context", "error"} :
          toAnyValueThrows(Get(logEntry, k))

\* axios.post rejects for every outcome but a 2xx response
Outcomes == {"2xx", "non2xx", "timeout", "refused"}

AxiosRejects(outcome) == outcome # "2xx"

\* a body that lets what is raised in it escape
exportLogUncaught(raised) == IF raised THEN "rejected" ELSE "resolved"

\* try { ... } catch (error) { } of lines 74-166: the state of the promise
\* of exportLog once its body has ended or raised
exportLogSettles(raised) == "resolved"

\* exportLog up to the await of line 159: the entry it works on, what it
\* posts and the state of its promise
exportLog(logEntry) ==
    IF Falsy(logEntry) \/ ~IsObject(logEntry)
    THEN [after |-> logEntry, posted |-> <<>>, promise |-> exportLogSettles(FALSE)]
    ELSE LET entry == prepared(logEntry)
         IN  IF PayloadThrows(entry)
             THEN [after |-> entry, posted |-> <<>>,
                   promise |-> exportLogSettles(TRUE)]
             ELSE [after |-> entry, posted |-> <<Payload(entry)>>,
                   promise |-> "pending"]

\* the strings of at most n of the characters
TextsUpTo(n) == UNION {[1..m -> DurationChars] : m \in 0..n}

DurationArgs ==
    {Text(cs) : cs \in TextsUpTo(MaxDurationLen)}
        \cup {Num(0), Num(150), JsNaN, JsUndefined, JsNull, Bool(TRUE), Obj(<<>>)}

\* context entries a context holds at most, the example of four aside
MaxContextKeys == 2

ContextKeys == {"a", "d", "traceId", "date"}

Nested == Obj([k \in {"nested"} |-> Bool(TRUE)])

ContextValues ==
    {Num(1), Str("s", 1), Str("", 0), Bool(TRUE), JsNull,
     Arr(<<Num(1), Num(2)>>), Arr(<<Nested>>), Nested}

Contexts ==
    {Obj(f) : f \in UNION {[K -> ContextValues] :
                             K \in {S \in SUBSET ContextKeys :
                                      Cardinality(S) <= MaxContextKeys}}}

\* {a: 1, b: 's', c: [1, 2], d: {nested: true}}
ExampleContext ==
    Obj([k \in {"a", "b", "c", "d"} |->
            CASE k = "a" -> Num(1)
              [] k = "b" -> Str("s", 1)
              [] k = "c" -> Arr(<<Num(1), Num(2)>>)
              [] k = "d" -> Nested])

\* an entry as Logger.log builds it, with the given context
LogEntry(message, context) ==
    Obj([timestamp |-> JsDate("t0", TRUE), level |-> Str("info", 4),
         message |-> message, context |-> context])

BigEntries ==
    {LogEntry(Str("MMMM...", 1048576), ExampleContext),
     LogEntry(Str("request done", 12), Obj([k \in {"d"} |-> BBig])),
     SetField(LogEntry(Str("request done", 12), ExampleContext), "request", BBig),
     SetField(LogEntry(Str("request done", 12), ExampleContext), "response", BBig),
     SetField(LogEntry(Str("request failed", 14), ExampleContext), "error",
              Obj([k \in {"message"} |-> Str("EEEE...", 1048576)]))}

Looping == Cyclic([k \in {"self"} |-> JsUndefined])

MalformedEntries ==
    {JsFunction, Looping, Obj([level |-> Num(5)]),
     Obj([timestamp |-> JsDate("t0", FALSE), level |-> Str("info", 4)]),
     Obj([timestamp |-> Str("t0", 24), level |-> Str("error", 5)]),
     LogEntry(Str("request done", 12), Obj([k \in {"d"} |-> Looping])),
     LogEntry(Str("request done", 12), Num(5)),
     SetField(LogEntry(Str("request failed", 14), Obj(<<>>)), "error", Looping)}

ExportArgs ==
    {LogEntry(Str("request done", 12), context) : context \in Contexts \cup {ExampleContext}}
        \cup {LogEntry(Str("done (5 ms)", 11), ExampleContext),
              LogEntry(Str("done (2 s)", 10), Obj(<<>>)),
              SetField(LogEntry(Str("request done", 12), ExampleContext),
                       "durationMs", Num(150)),
              SetField(LogEntry(Str("request done", 12), ExampleContext),
                       "traceId", Str("t1", 2))}
        \cup BigEntries \cup MalformedEntries

\* the argument of a call still to be made
Argument(x) == [fn |-> "none", arg |-> x, result |-> JsUndefined, raised |-> FALSE]

\* the exporter before a call: the argument of the call is chosen
InitExporter ==
    /\ spanDurations = <<>>
    /\ nEnds = 0
    /\ onEndRaised = FALSE
    /\ lastOnEnd = "none"
    /\ now = 0
    /\ req = [r \in Reqs |-> IdleReq]
    /\ timers = <<>>
    /\ emitted = [r \in Reqs |-> <<>>]
    /\ call \in {Argument(x) : x \in DurationArgs \cup ExportArgs}

\* parseDurationMs(raw) for the chosen argument
ParseDurationMs ==
    /\ call.fn = "none"
    /\ isPrim(call.arg) \/ call.arg = Obj(<<>>)
    /\ call' = Returned("parseDurationMs", call.arg, parseDurationMs(call.arg), call.arg)
    /\ UNCHANGED <<spanDurations, nEnds, onEndRaised, lastOnEnd, now, req, timers, emitted>>

\* exportLog(logEntry) for the chosen argument, up to its await; an async
\* function raises nothing at its caller
ExportLog ==
    /\ call.fn = "none"
    /\ LET run == exportLog(call.arg)
       IN  call' = [fn |-> "exportLog", arg |-> call.arg, result |-> JsUndefined,
                    after |-> run.after, raised |-> FALSE, posted |-> run.posted,
                    promise |-> run.promise, outcome |-> "none"]
    /\ UNCHANGED <<spanDurations, nEnds, onEndRaised, lastOnEnd, now, req, timers, emitted>>

\* the submission of line 159 ends with the outcome
HttpSettle(outcome) ==
    /\ call.fn = "exportLog"
    /\ call.promise = "pending"
    /\ call' = [call EXCEPT !.promise = exportLogSettles(AxiosRejects(outcome)),
                            !.outcome = outcome]
    /\ UNCHANGED <<spanDurations, nEnds, onEndRaised, lastOnEnd, now, req, timers, emitted>>

NextExporter ==
    \/ ParseDurationMs
    \/ ExportLog
    \/ \E outcome \in Outcomes : HttpSettle(outcome)

SpecExporter == InitExporter /\ [][NextExporter]_vars

\* the duration the claim C18 names for a number or a string: N for 'Nms',
\* N * 1000 for 'Ns', floor(N / 1000) for 'Nus', N for the numeral 'N',
\* absent for every other string
NamedDuration(raw) ==
    IF raw.kind = "number" THEN raw
    ELSE LET s == ToLower(Trim(raw.chars))
         IN  IF EndsWith(s, <<"m", "s">>) /\ AllDigits(Slice(s, 2))
             THEN Num(DecimalValue(Slice(s, 2)))
             ELSE IF EndsWith(s, <<"u", "s">>) /\ AllDigits(Slice(s, 2))
             THEN Num(DecimalValue(Slice(s, 2)) \div 1000)
             ELSE IF EndsWith(s, <<"s">>) /\ AllDigits(Slice(s, 1))
             THEN Num(DecimalValue(Slice(s, 1)) * 1000)
             ELSE IF AllDigits(s) THEN Num(DecimalValue(s))
             ELSE JsUndefined

\* C18: parseDurationMs maps a number n to n, 'Nms' to N, 'Ns' to N * 1000,
\* 'Nus' to floor(N / 1000), and a string of none of these forms to
\* undefined, never to 0 and never to a number that is not finite.
C18_ParseDuration ==
    (call.fn = "parseDurationMs" /\ call.arg.kind \in {"number", "string"})
    => call.result = NamedDuration(call.arg)

\* exportLog has encoded an entry and handed the payload to axios.post
Encoded == call.fn = "exportLog" /\ call.posted # <<>>

\* the keys of the flat attributes, and of the context of the body, of a payload
AttrKeys(payload) == {a.key : a \in payload.attributes}

BodyContextKeys(payload) ==
    IF "context" \in DOMAIN payload.body.values
    THEN DOMAIN payload.body.values["context"].values ELSE {}

\* a string, number or boolean
Scalar(v) == v.kind \in {"string", "number", "boolean"}

\* the two classes of context values the claim C17 names
Flat(v) ==
    \/ Scalar(v)
    \/ v.kind = "array" /\ \A i \in 1..Len(v.items) : Scalar(v.items[i])

Structured(v) ==
    \/ v.kind = "object"
    \/ v.kind = "array" /\ \E i \in 1..Len(v.items) : v.items[i].kind = "object"

\* the context entry k is a flat attribute of the payload and not in its body
RoutedFlat(payload, context, k) ==
    /\ Attr(attrKey(k), toAnyValue(context.fields[k])) \in payload.attributes
    /\ k \notin BodyContextKeys(payload)

\* the context entry k is in the context of the body and no flat attribute
RoutedBody(payload, context, k) ==
    /\ k \in BodyContextKeys(payload)
    /\ payload.body.values["context"].values[k] = toAnyValue(context.fields[k])
    /\ attrKey(k) \notin AttrKeys(payload)

\* the payload posted for the example context has a, b, c as attributes and
\* exactly d in the context of its body
ExampleRouted ==
    Get(call.arg, "context") = ExampleContext
    => /\ {"a", "b", "c"} \subseteq AttrKeys(call.posted[1])
       /\ BodyContextKeys(call.posted[1]) = {"d"}

OversizeExport ==
    /\ call.fn = "exportLog"
    /\ IsObject(call.arg)
    /\ exporterDataSize(call.arg) > maxLogSize

ContentFields == {"message", "context", "request", "response", "error"}

\* the encoded message, context, request, response and error of an entry,
\* and the encoded entries of its context
OriginalContent(logEntry) ==
    {toAnyValue(Get(logEntry, k)) :
        k \in {j \in ContentFields : Get(logEntry, j).kind # "undefined"}}
    \cup {toAnyValue(Get(Get(logEntry, "context"), k)) :
            k \in entries(Get(logEntry, "context"))}

\* the values a payload holds as attributes, in its body and in the context
\* of its body
PayloadValues(payload) ==
    {a.value : a \in payload.attributes}
    \cup {payload.body.values[k] : k \in DOMAIN payload.body.values}
    \cup {payload.body.values["context"].values[k] : k \in BodyContextKeys(payload)}

\* the payload names the original size under the marker's key
CarriesSize(payload, size) ==
    \/ Attr("[ORIGINAL_SIZE]", IntValue(size)) \in payload.attributes
    \/ /\ "[ORIGINAL_SIZE]" \in DOMAIN payload.body.values
       /\ payload.body.values["[ORIGINAL_SIZE]"] = IntValue(size)

\* C19: for an entry whose serialized size is over 1 MiB the payload that
\* exportLog submits holds none of the entry's message, context, request,
\* response or error, and holds a truncation marker with the original size.
C19_OversizeGivesMarker ==
    OversizeExport
    => /\ call.posted # <<>>
       /\ PayloadValues(call.posted[1]) \cap OriginalContent(call.arg) = {}
       /\ CarriesSize(call.posted[1], exporterDataSize(call.arg))

\* C20: exportLog raises nothing and its promise is never rejected: for
\* every entry, once the call has returned without a submission or the
\* submission has ended (2xx, non-2xx, timeout, refused), the promise is
\* resolved; it is pending only while the submission is under way.
C20_ExportLogNeverRejects ==
    call.fn = "exportLog"
    => /\ ~call.raised
       /\ call.promise \in {"pending", "resolved"}
       /\ call.promise = "pending" => (call.posted # <<>> /\ call.outcome = "none")

\* a submission that timed out, and an entry whose encoding raised
C20_Witness ==
    /\ call.fn = "exportLog"
    /\ call.promise = "resolved"
    /\ \/ call.outcome = "timeout"
       \/ IsObject(call.arg) /\ PayloadThrows(call.after)

\* ---------------------------------------------------------------------
\* Logger and CollectorWinstonTransport (src/logger/logger.ts)

\* LogLevel, unnamed/part_012 lines 1-6
LogLevels == {"error", "warn", "info", "debug"}

\* LOG_LEVEL_PRIORITY, unnamed/part_012 lines 9-14
LOG_LEVEL_PRIORITY(level) ==
    CASE level = "error" -> 4
      [] level = "warn" -> 3
      [] level = "info" -> 2
      [] level = "debug" -> 1

\* shouldLogLevel, unnamed/part_012 lines 17-19
shouldLogLevel(currentLevel, minLevel) ==
    LOG_LEVEL_PRIORITY(currentLevel) >= LOG_LEVEL_PRIORITY(minLevel)

\* the levels of winston.createLogger: a lower number is more severe
winstonLevels(level) ==
    CASE level = "error" -> 0
      [] level = "warn" -> 1
      [] level = "info" -> 2
      [] level = "debug" -> 5

\* the logger of lines 67-70 writes an entry to its transports if its own
\* level is at least as verbose as the entry's
winstonEnabled(loggerLevel, level) == winstonLevels(loggerLevel) >= winstonLevels(level)

\* a LoggerConfig: '' stands for a level that is not configured
Config(minLogLevel, logLevel) ==
    [kind |-> "config", minLogLevel |-> minLogLevel, logLevel |-> logLevel]

Configs == {Config(m, l) : m \in LogLevels \cup {""}, l \in LogLevels \cup {""}}

\* a || LogLevel.INFO
OrInfo(level) == IF Truthy(level) THEN level ELSE "info"

LevelText(level) == Str(level, IF level \in {"error", "debug"} THEN 5 ELSE 4)

\* createLogEntry, lines 89-104, for a config that names no service
createLogEntry(level, message, context) ==
    LET base == Obj([level |-> LevelText(level), message |-> message,
                     timestamp |-> NewDate])
    IN  IF Falsy(context) THEN base ELSE SetField(base, "context", context)

\* Logger.log, lines 106-115: the entries that reach the transports
loggerLog(config, level, message, context) ==
    IF ~shouldLogLevel(level, OrInfo(config.minLogLevel)) THEN <<>>
    ELSE IF winstonEnabled(OrInfo(config.logLevel), level)
    THEN <<createLogEntry(level, message, context)>>
    ELSE <<>>

\* a transport that calls back without waiting for the export
calledBackAtOnce(promise) == TRUE

\* CollectorWinstonTransport.log, lines 14-22: callback runs in the then or
\* the catch handler of the promise of exportLog
calledBack(promise) == promise \in {"resolved", "rejected"}

LoggerContexts == {JsUndefined, ExampleContext, Obj([k \in {"d"} |-> Looping]), Nested}

LoggerMessages == {Str("request done", 12), Str("request failed", 14)}

\* a logger before a call: its configuration is chosen
InitLogger ==
    /\ spanDurations = <<>>
    /\ nEnds = 0
    /\ onEndRaised = FALSE
    /\ lastOnEnd = "none"
    /\ now = 0
    /\ req = [r \in Reqs |-> IdleReq]
    /\ timers = <<>>
    /\ emitted = [r \in Reqs |-> <<>>]
    /\ call \in {Argument(config) : config \in Configs}

\* logger.debug / info / warn / error (message, context), lines 117-131,
\* up to its return: an entry that reaches the collector transport starts
\* exportLog (line 15)
LoggerLog(level, message, context) ==
    /\ call.fn = "none"
    /\ LET handed == loggerLog(call.arg, level, message, context)
           run == IF handed = <<>> THEN [posted |-> <<>>, promise |-> "none"]
                  ELSE exportLog(handed[1])
       IN  call' = [fn |-> "log", arg |-> call.arg, level |-> level,
                    result |-> JsUndefined, raised |-> FALSE, returned |-> TRUE,
                    handed |-> handed, posted |-> run.posted,
                    promise |-> run.promise, outcome |-> "none", callbacks |-> 0]
    /\ UNCHANGED <<spanDurations, nEnds, onEndRaised, lastOnEnd, now, req, timers, emitted>>

\* the submission of the transport's export ends with the outcome
TransportSettle(outcome) ==
    /\ call.fn = "log"
    /\ call.promise = "pending"
    /\ call' = [call EXCEPT !.promise = exportLogSettles(AxiosRejects(outcome)),
                            !.outcome = outcome]
    /\ UNCHANGED <<spanDurations, nEnds, onEndRaised, lastOnEnd, now, req, timers, emitted>>

\* the then or catch handler of lines 16-21 runs; catch sees only a
\* rejection of exportLog, callback itself raising nothing
TransportCallback ==
    /\ call.fn = "log"
    /\ call.handed # <<>>
    /\ call.callbacks = 0
    /\ calledBack(call.promise)
    /\ call' = [call EXCEPT !.callbacks = 1]
    /\ UNCHANGED <<spanDurations, nEnds, onEndRaised, lastOnEnd, now, req, timers, emitted>>

NextLogger ==
    \/ \E level \in LogLevels, message \in LoggerMessages, context \in LoggerContexts :
          LoggerLog(level, message, context)
    \/ \E outcome \in Outcomes : TransportSettle(outcome)
    \/ TransportCallback

SpecLogger == InitLogger /\ [][NextLogger]_vars

\* the submission ends (axios has a timeout, line 161) and the handlers of a
\* settled promise run
SpecLoggerFair ==
    /\ SpecLogger
    /\ WF_vars(\E outcome \in Outcomes : TransportSettle(outcome))
    /\ WF_vars(TransportCallback)

\* C21: a call of debug / info / warn / error hands an entry to the
\* transports if and only if the priority of its level is at least that of
\* minLogLevel (info when not configured).
C21_MinLevelFilter ==
    call.fn = "log"
    => (call.handed # <<>>
        <=> LOG_LEVEL_PRIORITY(call.level)
              >= LOG_LEVEL_PRIORITY(OrInfo(call.arg.minLogLevel)))

\* an entry has been passed to the log method of the collector transport
PassedToTransport == call.fn = "log" /\ call.handed # <<>>

\* C30: for every entry passed to the transport's log the logger call has
\* returned, the completion callback is not invoked before the export has
\* settled nor more than once, and it is eventually invoked.
C30_CallbackAfterExport ==
    /\ [](PassedToTransport
          => /\ call.returned
             /\ call.callbacks \in {0, 1}
             /\ call.callbacks = 1 => call.promise = "resolved")
    /\ PassedToTransport ~> (PassedToTransport /\ call.callbacks = 1)

\* the callback has run after a refused submission, and after an export
\* that posted nothing
C30_Witness ==
    /\ PassedToTransport
    /\ call.callbacks = 1
    /\ call.outcome = "refused" \/ call.posted = <<>>

\* ---------------------------------------------------------------------
\* From the interceptor's completion entry to the exported record

\* the durations resolved for a request are 0, 2, 4, ... microseconds
MaxDurationSteps == 600

ResolvedDurations == {Ms(2000 * n) : n \in 0..MaxDurationSteps}

\* duration.toFixed(2), in hundredths of a millisecond; no duration of the
\* model lies halfway between two hundredths
toFixed2(d) == (MsToNs(d) + 5000) \div 10000

FixedText(cents) ==
    ToString(cents \div 100) \o "." \o (IF cents % 100 < 10 THEN "0" ELSE "")
        \o ToString(cents % 100)

\* `${method} ${url} (${duration.toFixed(2)}ms)`, lines 225 and 298
completionMessage(d) ==
    LET txt == "GET /x (" \o FixedText(toFixed2(d)) \o "ms)"
    IN  Message(txt, Len(txt), <<Dec(toFixed2(d)), "ms">>)

\* the number d as a property value (its size in JSON counts the whole
\* milliseconds only)
MsNumber(d) == [kind |-> "number", val |-> d.whole, frac |-> d.frac]

\* the second argument of this.logger.info (lines 226-247) and of
\* this.logger.error (lines 299-319) for a small request
completionContext(level, d) ==
    LET common ==
            Obj([request |-> Obj([method |-> Str("GET", 3), url |-> Str("/x", 2),
                                  body |-> sanitizeBody(BSmall),
                                  headers |-> sanitizeHeaders(HSmall)]),
                 performance |-> Obj([durationMs |-> MsNumber(d)]),
                 traceId |-> Str("t1", 2), spanId |-> Str("s1", 2)])
    IN  IF level = "info"
        THEN SetField(common, "response",
                      Obj([statusCode |-> Num(200), body |-> sanitizeBody(RespData)]))
        ELSE SetField(common, "error",
                      Obj([message |-> Str("boom", 4), statusCode |-> Num(500)]))

\* the duration_ms attributes of a payload
ExportedDurations(payload) ==
    {a.value.value.val : a \in {b \in payload.attributes : b.key = "duration_ms"}}

\* a resolved duration before it is logged
InitPipeline ==
    /\ spanDurations = <<>>
    /\ nEnds = 0
    /\ onEndRaised = FALSE
    /\ lastOnEnd = "none"
    /\ now = 0
    /\ req = [r \in Reqs |-> IdleReq]
    /\ timers = <<>>
    /\ emitted = [r \in Reqs |-> <<>>]
    /\ call \in {Argument([kind |-> "duration", ms |-> d]) : d \in ResolvedDurations}

\* the deferred callback logs the completion of a request whose duration it
\* resolved: this.logger.info / error builds the entry, winston hands it to
\* the collector transport and exportLog encodes it, all in the same turn
LogCompletion(level) ==
    /\ call.fn = "none"
    /\ LET handed == loggerLog(Config("", ""), level, completionMessage(call.arg.ms),
                               completionContext(level, call.arg.ms))
           run == exportLog(handed[1])
       IN  call' = [fn |-> "logCompletion", arg |-> call.arg, level |-> level,
                    result |-> JsUndefined, raised |-> FALSE,
                    handed |-> handed, posted |-> run.posted, promise |-> run.promise]
    /\ UNCHANGED <<spanDurations, nEnds, onEndRaised, lastOnEnd, now, req, timers, emitted>>

NextPipeline == \E level \in {"info", "error"} : LogCompletion(level)

SpecPipeline == InitPipeline /\ [][NextPipeline]_vars

\* d rounded to the nearest whole millisecond
RoundMs(d) == d.whole + (IF d.frac * 2 >= NsPerMs THEN 1 ELSE 0)

\* C22: the duration_ms attribute of the record submitted for a request is
\* the duration the interceptor resolved, rounded to the nearest whole
\* millisecond.
C22_ExportedDuration ==
    call.fn = "logCompletion"
    => /\ call.posted # <<>>
       /\ ExportedDurations(call.posted[1]) = {RoundMs(call.arg.ms)}

\* ---------------------------------------------------------------------
\* The deferred callback's duration resolution over every small table

\* the spans that end: with an id or the empty id, lasting 0, 1/2 or 1 ms
ResolveSpans ==
    {SpanObject(id, <<0, 0>>, <<0, ns>>, FALSE) :
        id \in {"s1", "s2", ""}, ns \in {0, 500000, 1000000}}

\* the span ids captured at request entry: one that ends and one that
\* never does
CapturedIds == {"s1", "c0"}

\* the closure of an instrumented request that captured spanId at time 0
Closure(spanId) ==
    [IdleReq EXCEPT !.ctx = "ok", !.request = Request(HSmall, BSmall),
                    !.path = "instrumented", !.traceId = "t1", !.spanId = spanId,
                    !.handleCalls = 1]

\* the setTimeout callback of lines 182-251 (kind next) or 255-323 (kind
\* error) runs for a request that captured spanId: what it reads and the
\* (table) and the entries it hands to the Logger
RunCallback(kind, spanId, active, fault, clock) ==
    /\ call' = [fn |-> "callback", kind |-> kind, spanId |-> spanId, active |-> active,
                fault |-> fault, clock |-> clock, raised |-> FALSE,
                table |-> spanDurations,
                result |-> callback(Closure(spanId),
                                    IF kind = "next"
                                    THEN Timer(1, "next", RespData, "-", <<>>)
                                    ELSE Timer(1, "error", JsUndefined, "HttpException", <<>>),
                                    spanDurations, active, fault, clock)]
    /\ spanDurations' = afterLookups(spanDurations)
    /\ UNCHANGED <<nEnds, onEndRaised, lastOnEnd, now, req, timers, emitted>>

NextResolve ==
    \/ \E span \in ResolveSpans : OnEnd(span)
    \/ \E kind \in {"next", "error"}, spanId \in CapturedIds,
          active \in {NoSpan, "s1", "s2", "s3"}, fault \in CallbackFaults,
          clock \in Clock :
            RunCallback(kind, spanId, active, fault, clock)

SpecResolve == Init /\ [][NextResolve]_vars

\* the callback has handed an entry to the Logger
Resolved == call.fn = "callback" /\ call.result # <<>>

\* the largest of the durations of a table that is not empty
RECURSIVE MaxTracked(_)
MaxTracked(m) ==
    IF Len(m) = 1 THEN m[1].dur
    ELSE LET rest == MaxTracked(Tail(m))
         IN  IF MsGreater(m[1].dur, rest) THEN m[1].dur ELSE rest

\* the first defined value of the four sources the claim C23 names
FirstDefined(m, active, spanFail, spanId, clock) ==
    LET a == IF ~spanFail /\ active # NoSpan THEN MapGet(m, active) ELSE <<>>
        b == MapGet(m, spanId)
    IN  IF a # <<>> THEN a[1]
        ELSE IF b # <<>> THEN b[1]
        ELSE IF m # <<>> THEN MaxTracked(m)
        ELSE Ms(clock * NsPerMs)

\* C23: on the success and the error path the duration of the entry is the
\* first defined value of: the tracked duration of the span active in the
\* callback, that of the captured span id, the maximum over all tracked
\* durations, the wall-clock time since the start.
C23_FirstDefinedSource ==
    Resolved
    => call.result[1].durationMs
         = FirstDefined(call.table, call.active, call.fault = "span",
                        call.spanId, call.clock)

\* C24: the wall-clock measurement is the entry's duration if and only if
\* the table holds no duration when the callback runs.
C24_WallClockOnlyIfEmpty ==
    Resolved => (call.result[1].src = "wall" <=> call.table = <<>>)

\* ---------------------------------------------------------------------
\* The events of one request

\* the results (values and errors) the handler of request r has produced
HandlerResults(r) ==
    SelectSeq(req[r].produced, LAMBDA ev : ev.type \in {"next", "error"})

\* the completion entries (info, error) emitted for request r
CompletionEntries(r) ==
    SelectSeq(emitted[r], LAMBDA en : en.level \in {"info", "error"})

\* C25: for one request the handler is invoked, produces its result, the
\* duration is resolved and the entry is emitted in this order and each at
\* most once: no resolution before the result, no entry before its
\* resolution.  How many results the handler's stream produces is the
\* handler's choice; the interceptor's own events are what is counted.
C25_EventsOnceInOrder ==
    \A r \in Reqs :
        /\ req[r].handleCalls <= 1
        /\ req[r].reads <= 1
        /\ Len(CompletionEntries(r)) <= 1
        /\ req[r].reads <= Len(HandlerResults(r))
        /\ Len(CompletionEntries(r)) <= req[r].reads
        /\ Len(HandlerResults(r)) + Len(CompletionEntries(r)) > 0
           => req[r].handleCalls = 1

\* the results of the handler that have been passed on to the caller
DeliveredResults(r) ==
    SelectSeq(req[r].delivered, LAMBDA ev : ev.type \in {"next", "error"})

\* C26: the step that passes a result of the handler on to the caller
\* resolves no duration and emits nothing, it leaves the callback pending;
\* the step that resolves the duration delivers nothing and comes after the
\* delivery of its result; and a duration the table got for the captured
\* span between the two is read by the resolution: the entry carries a
\* duration the table holds when the callback runs.
C26_ResolutionInLaterTurn ==
    [][\A r \in Reqs :
         /\ req'[r].reads # req[r].reads
            => /\ req'[r].delivered = req[r].delivered
               /\ req[r].reads < Len(DeliveredResults(r))
               /\ timers # <<>>
               /\ Head(timers).r = r
               /\ (/\ Head(timers).tracked = <<>>
                   /\ MapHas(spanDurations, req[r].spanId)
                   /\ Len(emitted'[r]) > Len(emitted[r]))
                  => LET e == Last(emitted'[r])
                     IN  /\ e.src \in {"active", "captured"}
                         /\ <<e.durationMs>> = MapGet(spanDurations, e.of)
         /\ (/\ req[r].path = "instrumented"
             /\ Len(DeliveredResults(r)') > Len(DeliveredResults(r)))
            => /\ req'[r].reads = req[r].reads
               /\ emitted'[r] = emitted[r]
               /\ Len(timers') = Len(timers) + 1
               /\ Last(timers').r = r
               /\ Last(timers').kind = Last(req'[r].delivered).type]_vars

\* C26 witness: the handler's result has been passed on, its callback is
\* pending, and the captured span ended in between: the table holds its
\* duration now and did not when the callback was scheduled.
C26_Witness ==
    /\ timers # <<>>
    /\ Head(timers).tracked = <<>>
    /\ MapHas(spanDurations, req[Head(timers).r].spanId)
    /\ Len(DeliveredResults(Head(timers).r)) > req[Head(timers).r].reads

\* C27: only onEnd and shutdown change the table: a step that changes it is
\* an onEnd or a shutdown, and a step of the interceptor (intercept, the
\* delivery of a result, a deferred callback with its lookups by the active
\* id, by the captured id and its scan) leaves keys, values and order as
\* they are.
C27_OnlyTrackerWrites ==
    [][/\ spanDurations' # spanDurations
          => \/ nEnds' = nEnds + 1
             \/ spanDurations' = shutdown(spanDurations)
       /\ (req' # req \/ timers' # timers \/ emitted' # emitted)
          => spanDurations' = spanDurations]_vars

\* C27 witness: a callback has read a tracked duration, and the table still
\* holds that duration under the same id afterwards.
C27_Witness ==
    \E r \in Reqs :
        /\ req[r].reads > 0
        /\ emitted[r] # <<>>
        /\ Last(emitted[r]).src \in {"active", "captured", "max"}
        /\ MapGet(spanDurations, Last(emitted[r]).of) = <<Last(emitted[r]).durationMs>>

\* the branches intercept ends in
InterceptPaths == {"invalidContext", "notObject", "oversize", "instrumented", "caught"}

\* C28: a call of intercept invokes next.handle exactly once, whichever
\* branch it takes (invalid context, request not an object, oversized data,
\* instrumentation, recovery from an internal exception), and no later step
\* invokes it again.
C28_HandlerInvokedOnce ==
    \A r \in Reqs :
        /\ req[r].path = "idle" => req[r].handleCalls = 0
        /\ req[r].path # "idle"
           => /\ req[r].path \in InterceptPaths
              /\ req[r].handleCalls = 1

\* C28 witness: intercept recovered from an internal exception, the handler
\* was invoked once and its stream has run to its end.
C28_Witness ==
    \E r \in Reqs :
        /\ req[r].path = "caught"
        /\ req[r].handleCalls = 1
        /\ Terminated(req[r].delivered)

\* the headers whose values must not be logged
SensitiveHeaders == {"authorization", "cookie", "x-api-key", "x-auth-token"}

\* the headers field of an entry shows none of the sensitive values of the
\* request's headers
HidesSensitive(logged, original) ==
    (logged.kind = "object" /\ original.kind = "object")
    => \A k \in (DOMAIN logged.fields) \cap (DOMAIN original.fields) \cap SensitiveHeaders :
          /\ logged.fields[k] = Redacted
          /\ logged.fields[k] # original.fields[k]

\* C29: in every entry handed to the Logger (info, error and the warn entry
\* for oversized data) the headers field holds no original value of the
\* headers authorization, cookie, x-api-key, x-auth-token: the value reads
\* [REDACTED] or the whole field is a marker.
C29_SensitiveHeadersHidden ==
    \A r \in Reqs :
        \A i \in 1..Len(emitted[r]) :
            HidesSensitive(emitted[r][i].headers, req[r].request.headers)

====
